---------------------------- MODULE Spec2Model ----------------------------
(***************************************************************************)
(* A model of eom_umrcc.py: the ic-MRCC amplitude solver, its three        *)
(* orthogonalization schemes, the DIIS accelerator, the excitation         *)
(* manifold generator and the effective-Hamiltonian builders.              *)
(*                                                                         *)
(* Floating-point numbers are modelled by exact rationals <<n, d>> (d > 0, *)
(* lowest terms).  A square root is taken only of a rational that is the   *)
(* square of a rational; the inputs of the numerical specifications are    *)
(* chosen so that every root the code takes is of that kind.               *)
(***************************************************************************)
EXTENDS Integers, Sequences, FiniteSets, TLC

(***************************************************************************)
(* Exact rational arithmetic.                                              *)
(***************************************************************************)
Abs(x) == IF x < 0 THEN -x ELSE x

RECURSIVE Gcd(_, _)
Gcd(a, b) == IF b = 0 THEN a ELSE Gcd(b, a % b)

R(n, d) ==
    LET s == IF d < 0 THEN -1 ELSE 1
        g == Gcd(Abs(n), Abs(d))
    IN  <<(s * n) \div g, (s * d) \div g>>

Zero == <<0, 1>>
One == <<1, 1>>
RInt(k) == <<k, 1>>
Lcm(a, b) == (a \div Gcd(a, b)) * b
(* The operations reduce before they multiply, to keep the integers small. *)
RAddOver(a, b, l) == R(a[1] * (l \div a[2]) + b[1] * (l \div b[2]), l)
RAdd(a, b) == RAddOver(a, b, Lcm(a[2], b[2]))
RNeg(a) == <<-a[1], a[2]>>
RSub(a, b) == RAdd(a, RNeg(b))
RMulBy(a, b, g, h) ==
    IF g = 0 \/ h = 0 THEN R(a[1] * b[1], a[2] * b[2])
    ELSE <<(a[1] \div g) * (b[1] \div h), (a[2] \div h) * (b[2] \div g)>>
RMul(a, b) == RMulBy(a, b, Gcd(Abs(a[1]), b[2]), Gcd(Abs(b[1]), a[2]))
RDiv(a, b) == RMul(a, R(b[2], b[1]))
RLtOver(a, b, l) == a[1] * (l \div a[2]) < b[1] * (l \div b[2])
RLt(a, b) == RLtOver(a, b, Lcm(a[2], b[2]))
RLe(a, b) == a = b \/ RLt(a, b)
RAbs(a) == <<Abs(a[1]), a[2]>>
(* a < b by continued fractions, for values whose common denominator is
   too large to form. *)
RECURSIVE RLtWide(_, _)
RLtWide(a, b) ==
    IF a[1] \div a[2] # b[1] \div b[2] THEN a[1] \div a[2] < b[1] \div b[2]
    ELSE IF b[1] % b[2] = 0 THEN FALSE
    ELSE IF a[1] % a[2] = 0 THEN TRUE
    ELSE RLtWide(<<b[2], b[1] % b[2]>>, <<a[2], a[1] % a[2]>>)

(* The integer square root, by bisection of lo..hi (lo * lo <= n < hi * hi). *)
RECURSIVE ISqrtFrom(_, _, _)
ISqrtFrom(n, lo, hi) ==
    IF hi - lo <= 1 THEN lo
    ELSE IF ((lo + hi) \div 2) * ((lo + hi) \div 2) <= n
         THEN ISqrtFrom(n, (lo + hi) \div 2, hi)
         ELSE ISqrtFrom(n, lo, (lo + hi) \div 2)
ISqrt(n) == IF n < 46340 * 46340 THEN ISqrtFrom(n, 0, 46340) ELSE 46340
IsSquare(n) == n >= 0 /\ ISqrt(n) * ISqrt(n) = n
RIsSquare(a) == IsSquare(a[1]) /\ IsSquare(a[2])
(* Defined on the squares of rationals only. *)
RSqrt(a) == CHOOSE r \in {<<ISqrt(a[1]), ISqrt(a[2])>>} : r[1] * r[1] = a[1] /\ r[2] * r[2] = a[2]

RECURSIVE RSum(_)
RSum(s) == IF s = <<>> THEN Zero ELSE RAdd(s[1], RSum(Tail(s)))

(***************************************************************************)
(* Vectors are sequences of rationals; a matrix is a record holding its    *)
(* shape (r rows, c columns) and its entries a[i][j], as a numpy array.    *)
(***************************************************************************)
Dot(u, v) == RSum([k \in 1..Len(u) |-> RMul(u[k], v[k])])
VSub(u, v) == [k \in 1..Len(u) |-> RSub(u[k], v[k])]
VAdd(u, v) == [k \in 1..Len(u) |-> RAdd(u[k], v[k])]
VScale(c, u) == [k \in 1..Len(u) |-> RMul(c, u[k])]
VZeros(n) == [k \in 1..n |-> Zero]
NormSq(u) == Dot(u, u)

(* SubSeq makes the rows tuples: every entry is computed once, when the matrix is. *)
Mat(n, m, F(_, _)) ==
    [r |-> n, c |-> m,
     a |-> SubSeq([i \in 1..n |-> SubSeq([j \in 1..m |-> F(i, j)], 1, m)], 1, n)]
MZeros(n, m) == Mat(n, m, LAMBDA i, j : Zero)
MIdentity(n) == Mat(n, n, LAMBDA i, j : IF i = j THEN One ELSE Zero)
MT(A) == Mat(A.c, A.r, LAMBDA i, j : A.a[j][i])
MMul(A, B) == Mat(A.r, B.c, LAMBDA i, j : RSum([k \in 1..A.c |-> RMul(A.a[i][k], B.a[k][j])]))
MSub(A, B) == Mat(A.r, A.c, LAMBDA i, j : RSub(A.a[i][j], B.a[i][j]))
MVec(A, v) == [i \in 1..A.r |-> RSum([k \in 1..A.c |-> RMul(A.a[i][k], v[k])])]
MDiag(d) == Mat(Len(d), Len(d), LAMBDA i, j : IF i = j THEN d[i] ELSE Zero)
MBlock(A, n, m) == Mat(n, m, LAMBDA i, j : A.a[i][j])
MConcat(A, B) == Mat(A.r, A.c + B.c, LAMBDA i, j : IF j <= A.c THEN A.a[i][j] ELSE B.a[i][j - A.c])
MIsSymmetric(A) == A.r = A.c /\ \A i \in 1..A.r : \A j \in 1..A.c : A.a[i][j] = A.a[j][i]


(***************************************************************************)
(* numpy.linalg.solve / inv / eigh.  solve and inv raise LinAlgError on a  *)
(* singular matrix; otherwise the solution is the exact one (Cramer).      *)
(***************************************************************************)
MMinor(A, i, j) ==
    Mat(A.r - 1, A.c - 1,
        LAMBDA p, q : A.a[IF p < i THEN p ELSE p + 1][IF q < j THEN q ELSE q + 1])

RECURSIVE Det(_)
Det(A) ==
    IF A.r = 0 THEN One
    ELSE RSum([j \in 1..A.c |->
                 RMul(RMul(IF j % 2 = 1 THEN One ELSE RInt(-1), A.a[1][j]),
                      Det(MMinor(A, 1, j)))])

Singular(A) == Det(A) = Zero

ReplaceCol(A, j, b) == Mat(A.r, A.c, LAMBDA p, q : IF q = j THEN b[p] ELSE A.a[p][q])

linalg_solve(A, b) ==
    LET d == Det(A) IN [j \in 1..A.r |-> RDiv(Det(ReplaceCol(A, j, b)), d)]

UnitVec(n, j) == [k \in 1..n |-> IF k = j THEN One ELSE Zero]

linalg_inv(A) ==
    LET cols == [j \in 1..A.r |-> linalg_solve(A, UnitVec(A.r, j))]
    IN  Mat(A.r, A.r, LAMBDA i, j : cols[j][i])

(* eigh reads the lower triangle of its argument only (UPLO = 'L'). *)
LowerSym(A) == Mat(A.r, A.c, LAMBDA i, j : IF j <= i THEN A.a[i][j] ELSE A.a[j][i])

MFromCols(n, cols) == Mat(n, Len(cols), LAMBDA i, j : cols[j][i])

Perms(n) == {f \in [1..n -> 1..n] : \A i, j \in 1..n : f[i] = f[j] => i = j}

(* Orthonormal frames of the plane with rational entries. *)
Frames2 ==
    { << <<One, Zero>>, <<Zero, One>> >>,
      << <<R(3, 5), R(4, 5)>>, <<R(-4, 5), R(3, 5)>> >>,
      << <<R(4, 5), R(3, 5)>>, <<R(-3, 5), R(4, 5)>> >> }

(* A frame of the plane placed on axes p < q of 3-space, the axis left over fixed. *)
Embed3(f, p, q) ==
    LET o == CHOOSE k \in 1..3 : k # p /\ k # q
        up(v) == [k \in 1..3 |-> IF k = p THEN v[1] ELSE IF k = q THEN v[2] ELSE Zero]
    IN  << up(f[1]), up(f[2]), UnitVec(3, o) >>

Frames(n) ==
    IF n = 0 THEN { <<>> }
    ELSE IF n = 1 THEN { << <<One>> >> }
    ELSE IF n = 2 THEN Frames2
    ELSE { Embed3(f, pq[1], pq[2]) : f \in Frames2, pq \in { <<1, 2>>, <<1, 3>>, <<2, 3>> } }

OrthoCands(n) ==
    { MFromCols(n, [k \in 1..n |-> f[p[k]]]) : f \in Frames(n), p \in Perms(n) }

IsEigenFrame(M, U) ==
    LET D == MMul(MT(U), MMul(M, U))
    IN  /\ \A i \in 1..M.r : \A j \in 1..M.r : i # j => D.a[i][j] = Zero
        /\ \A i \in 1..M.r : i < M.r => RLe(D.a[i][i], D.a[i + 1][i + 1])

HasEigh(A) == \E U \in OrthoCands(A.r) : IsEigenFrame(LowerSym(A), U)

(* Eigenvalues in ascending order and an orthonormal frame of eigenvectors. *)
linalg_eigh(A) ==
    LET M == LowerSym(A)
        U == CHOOSE V \in OrthoCands(A.r) : IsEigenFrame(M, V)
        D == MMul(MT(U), MMul(M, U))
    IN  [w |-> [k \in 1..A.r |-> D.a[k][k]], v |-> U]

(* The positions k with w[k] > thres, in order: a numpy boolean mask. *)
Mask(w, thres) == SelectSeq([k \in 1..Len(w) |-> k], LAMBDA k : RLt(thres, w[k]))
(* The positions a Python slice [-k:] picks out of n. *)
TailSlice(n, k) ==
    IF k = 0 \/ k >= n THEN [i \in 1..n |-> i] ELSE [i \in 1..k |-> n - k + i]
MCols(A, idx) == Mat(A.r, Len(idx), LAMBDA i, j : A.a[i][idx[j]])
Pick(w, idx) == [k \in 1..Len(idx) |-> w[idx[k]]]
InvSqrtDiag(vals) == MDiag([k \in 1..Len(vals) |-> RDiv(One, RSqrt(vals[k]))])
(* X = zeros((n, n)); X[:, :k] = A *)
PadCols(A, n) == Mat(A.r, n, LAMBDA i, j : IF j <= A.c THEN A.a[i][j] ELSE Zero)

(***************************************************************************)
(* The orthogonalization engine.  A StateVector is the vector of its       *)
(* coefficients over the determinants, forte.overlap is the dot product.   *)
(* A result is [err, finite, P, S, X, numnonred]: err names the exception  *)
(* the call ends in ("none": it returns), finite is FALSE when X holds an  *)
(* inf or a nan (the reciprocal root of an eigenvalue <= 0).               *)
(* Each function is a chain of operators, one per step of the code, the    *)
(* values computed so far passed on as parameters.                         *)
(***************************************************************************)
overlap(i, j) == Dot(i, j)

Max2(a, b) == IF a >= b THEN a ELSE b
Min2(a, b) == IF a <= b THEN a ELSE b

(* S[ibasis,jbasis] = overlap(i,j); S[jbasis,ibasis] = S[ibasis,jbasis], over
   every (ibasis, jbasis) in row order: the last write of an entry is the one made
   at (max, min). *)
MetricMatrix(ic_basis) ==
    Mat(Len(ic_basis), Len(ic_basis),
        LAMBDA i, j : overlap(ic_basis[Max2(i, j)], ic_basis[Min2(i, j)]))

OrthoResult(err, finite, P, S, X, numnonred) ==
    [err |-> err, finite |-> finite, P |-> P, S |-> S, X |-> X, numnonred |-> numnonred]

AllPositive(vals) == \A k \in 1..Len(vals) : RLt(Zero, vals[k])

(* X[:, :numnonred] = U @ S_diag_large; P = U @ U.T.  The assignment raises
   ValueError unless the shapes agree or the right side has a single column. *)
orthogonalization_build(S, U, vals, numnonred) ==
    IF Len(vals) # Min2(numnonred, S.r) /\ Len(vals) # 1
    THEN OrthoResult("ValueError", TRUE, MZeros(0, 0), S, MZeros(0, 0), numnonred)
    ELSE IF ~AllPositive(vals)
    THEN OrthoResult("none", FALSE, MMul(U, MT(U)), S, MZeros(S.r, S.r), numnonred)
    ELSE IF Len(vals) # Min2(numnonred, S.r)
    THEN OrthoResult("none", TRUE, MMul(U, MT(U)), S, MZeros(S.r, S.r), numnonred)
    ELSE OrthoResult("none", TRUE, MMul(U, MT(U)), S,
                     PadCols(MMul(U, InvSqrtDiag(vals)), S.r), numnonred)

orthogonalization_retain(S, eig, idx, const_num_op, num_op) ==
    orthogonalization_build(S, MCols(eig.v, idx), Pick(eig.w, idx),
                            IF const_num_op THEN num_op ELSE Len(idx))

orthogonalization_select(S, eig, thres, const_num_op, num_op) ==
    orthogonalization_retain(S, eig,
        IF const_num_op THEN TailSlice(S.r, num_op) ELSE Mask(eig.w, thres),
        const_num_op, num_op)

orthogonalization_eigh(S, thres, const_num_op, num_op) ==
    orthogonalization_select(S, linalg_eigh(S), thres, const_num_op, num_op)

orthogonalization(ic_basis_full, thres, const_num_op, num_op) ==
    orthogonalization_eigh(MetricMatrix(Tail(ic_basis_full)), thres, const_num_op, num_op)

(* A[:n, :m] placed in a zero matrix of n rows and m columns. *)
PadTo(A, n, m) == Mat(n, m, LAMBDA i, j : IF i <= A.r /\ j <= A.c THEN A.a[i][j] ELSE Zero)

(* 5.-6. X[:, :numnonred] = X12 with numnonred = X12.shape[1]; P = U @ U.T *)
orthogonalization_projective_concat(S, X12, U) ==
    IF X12.c > S.r
    THEN OrthoResult("ValueError", TRUE, MZeros(0, 0), S, MZeros(0, 0), X12.c)
    ELSE OrthoResult("none", TRUE, MMul(U, MT(U)), S, PadCols(X12, S.r), X12.c)

(* 4. U2 = Q @ U2; X2 = U2 @ S2_diag_large *)
orthogonalization_projective_X2(S, U1, X1, U2, vals2) ==
    orthogonalization_projective_concat(S, MConcat(X1, MMul(U2, InvSqrtDiag(vals2))),
                                        MConcat(U1, U2))

orthogonalization_projective_mask2(S, U1, X1, Q, eig2, m2) ==
    orthogonalization_projective_X2(S, U1, X1, MMul(Q, MCols(eig2.v, m2)), Pick(eig2.w, m2))

orthogonalization_projective_eigh2(S, U1, X1, Q, eig2, thres) ==
    orthogonalization_projective_mask2(S, U1, X1, Q, eig2, Mask(eig2.w, thres))

(* 3. S2 = Q.T @ S @ Q *)
orthogonalization_projective_S2(S, U1, X1, Q, thres) ==
    orthogonalization_projective_eigh2(S, U1, X1, Q, linalg_eigh(MMul(MT(Q), MMul(S, Q))), thres)

(* 2. Q = identity - X1 @ X1.T @ S *)
orthogonalization_projective_Q(S, U1, X1, thres) ==
    orthogonalization_projective_S2(S, U1, X1,
        MSub(MIdentity(S.r), MMul(X1, MMul(MT(X1), S))), thres)

(* 1. X1 = zeros((namps, namps_1)), U1 = zeros((namps, numnonred1)), filled from
   the retained eigenvectors of the single block. *)
orthogonalization_projective_X1(S, namps_1, U1_short, vals1, thres) ==
    orthogonalization_projective_Q(S, PadTo(U1_short, S.r, Len(vals1)),
        PadTo(MMul(U1_short, InvSqrtDiag(vals1)), S.r, namps_1), thres)

orthogonalization_projective_mask1(S, namps_1, eig1, m1, thres) ==
    orthogonalization_projective_X1(S, namps_1, MCols(eig1.v, m1), Pick(eig1.w, m1), thres)

orthogonalization_projective_eigh1(S, namps_1, eig1, thres) ==
    orthogonalization_projective_mask1(S, namps_1, eig1, Mask(eig1.w, thres), thres)

orthogonalization_projective_S1(S, namps_1, thres) ==
    orthogonalization_projective_eigh1(S, namps_1,
        linalg_eigh(MBlock(S, namps_1, namps_1)), thres)

orthogonalization_projective(ic_basis_full, num_op, thres) ==
    orthogonalization_projective_S1(MetricMatrix(Tail(ic_basis_full)),
        Min2(num_op[1], Len(ic_basis_full) - 1), thres)

(* 3. X[:,:numnonred] = Y @ U @ S_diag_large; P = Y @ U @ U.T @ inv(Y) *)
orthogonalization_GNO_build(S, Y, U, vals) ==
    OrthoResult("none", TRUE, MMul(Y, MMul(U, MMul(MT(U), linalg_inv(Y)))), S,
                PadCols(MMul(Y, MMul(U, InvSqrtDiag(vals))), S.r), Len(vals))

orthogonalization_GNO_mask(S, Y, eig, m) ==
    orthogonalization_GNO_build(S, Y, MCols(eig.v, m), Pick(eig.w, m))

orthogonalization_GNO_eigh(S, Y, eig, thres) ==
    orthogonalization_GNO_mask(S, Y, eig, Mask(eig.w, thres))

(* 2. S_GNO = Y.T @ S @ Y *)
orthogonalization_GNO_S(S, Y, thres) ==
    orthogonalization_GNO_eigh(S, Y, linalg_eigh(MMul(MT(Y), MMul(S, Y))), thres)

orthogonalization_GNO(ic_basis_full, Y, thres) ==
    orthogonalization_GNO_S(MetricMatrix(Tail(ic_basis_full)), Y, thres)

(* test_orthogonalization: X^T S X against the identity on the first numnonred
   rows and columns and zero elsewhere (np.allclose, exact here). *)
XSX_is_identity(XSX, numnonred) ==
    \A i \in 1..XSX.r : \A j \in 1..XSX.c :
        XSX.a[i][j] = (IF i = j /\ i <= numnonred THEN One ELSE Zero)

test_orthogonalization(X, S, numnonred) ==
    XSX_is_identity(MMul(MT(X), MMul(S, X)), numnonred)

(***************************************************************************)
(* class DIIS.  Python lists are objects: heap[ref] is the content of the  *)
(* list ref, and t_diis holds references, as list.append stores them.      *)
(* The error vectors are fresh arrays (np.subtract), held by value.        *)
(***************************************************************************)
DIIS_init(t, diis_start) ==
    [obj |-> "DIIS", t_diis |-> <<t>>, e_diis |-> <<>>, diis_start |-> diis_start]

(* diis = None *)
DIIS_None == [obj |-> "None"]

(* A floating-point nan, and a vector of them. *)
NaN == <<0, 0>>
VNaN(n) == [k \in 1..n |-> NaN]

RECURSIVE RMaxAbs(_)
RMaxAbs(s) ==
    IF Len(s) = 1 THEN RAbs(s[1])
    ELSE IF RLt(RMaxAbs(Tail(s)), RAbs(s[1])) THEN RAbs(s[1]) ELSE RMaxAbs(Tail(s))

(* B before it is scaled: -1 everywhere, 0 in the corner, the dot products of the
   error vectors in the leading block. *)
DIIS_B_raw(e_diis, diis_dim) ==
    Mat(diis_dim + 1, diis_dim + 1,
        LAMBDA i, j :
            IF i = diis_dim + 1 /\ j = diis_dim + 1 THEN Zero
            ELSE IF i <= Len(e_diis) /\ j <= Len(e_diis) THEN Dot(e_diis[i], e_diis[j])
                 ELSE RInt(-1))

(* np.abs(B[:-1, :-1]).max() *)
DIIS_scale(B, diis_dim) ==
    RMaxAbs([k \in 1..(diis_dim * diis_dim) |->
               B.a[((k - 1) \div diis_dim) + 1][((k - 1) % diis_dim) + 1]])

(* B[:-1, :-1] /= scale *)
DIIS_B(B, diis_dim, scale) ==
    Mat(diis_dim + 1, diis_dim + 1,
        LAMBDA i, j : IF i <= diis_dim /\ j <= diis_dim THEN RDiv(B.a[i][j], scale)
                      ELSE B.a[i][j])

RECURSIVE VSum(_, _)
VSum(vs, n) == IF vs = <<>> THEN VZeros(n) ELSE VAdd(vs[1], VSum(Tail(vs), n))

(* The outcome of diis.update(t, t_old): the object's new fields, the heap, the
   reference returned, and how the call ended: "none" (returned), "LinAlgError"
   (np.linalg.solve on a singular B) or "nan" (returned, but the block of B was
   divided by a largest absolute value of 0, so the weights and the new list
   returned are nan). *)
DIIS_outcome(d, heap_, ret, err) == [d |-> d, heap |-> heap_, ret |-> ret, err |-> err]

DIIS_bsol(diis_dim) == [k \in 1..(diis_dim + 1) |-> IF k = diis_dim + 1 THEN RInt(-1) ELSE Zero]

(* t_new = sum over l of x[l] * t_diis[l + 1], returned as a new list *)
DIIS_combine(d, heap_, diis_dim, x) ==
    DIIS_outcome(d,
        Append(heap_, VSum([l \in 1..diis_dim |-> VScale(x[l], heap_[d.t_diis[l + 1]])],
                           Len(heap_[d.t_diis[1]]))),
        Len(heap_) + 1, "none")

DIIS_solve(d, heap_, t, diis_dim, B) ==
    IF Singular(B) THEN DIIS_outcome(d, heap_, t, "LinAlgError")
    ELSE DIIS_combine(d, heap_, diis_dim, linalg_solve(B, DIIS_bsol(diis_dim)))

DIIS_normalize(d, heap_, t, diis_dim, B, scale) ==
    IF scale = Zero
    THEN DIIS_outcome(d, Append(heap_, VNaN(Len(heap_[t]))), Len(heap_) + 1, "nan")
    ELSE DIIS_solve(d, heap_, t, diis_dim, DIIS_B(B, diis_dim, scale))

DIIS_extrapolate(d, heap_, t, diis_dim, B) ==
    DIIS_normalize(d, heap_, t, diis_dim, B, DIIS_scale(B, diis_dim))

DIIS_window_open(diis_dim, diis_start, n) == diis_dim >= diis_start

(* The DIIS window test: diis_dim >= diis_start and diis_dim < len(t). *)
DIIS_window(diis_dim, diis_start, n) == diis_dim >= diis_start /\ diis_dim < n

DIIS_appended(d, heap_, t) ==
    IF DIIS_window(Len(d.t_diis) - 1, d.diis_start, Len(heap_[t]))
    THEN DIIS_extrapolate(d, heap_, t, Len(d.t_diis) - 1,
                          DIIS_B_raw(d.e_diis, Len(d.t_diis) - 1))
    ELSE DIIS_outcome(d, heap_, t, "none")

DIIS_update_always(d, heap_, t, t_old) ==
    DIIS_appended([d EXCEPT !.t_diis = Append(@, t),
                            !.e_diis = Append(@, VSub(heap_[t], t_old))], heap_, t)

DIIS_update(d, heap_, t, t_old) ==
    IF d.diis_start = -1 THEN DIIS_outcome(d, heap_, t, "none")
    ELSE DIIS_appended([d EXCEPT !.t_diis = Append(@, t),
                                 !.e_diis = Append(@, VSub(heap_[t], t_old))], heap_, t)

(***************************************************************************)
(* update_amps_orthogonal.  t is a reference to the amplitude list, which  *)
(* is changed in place; diis is a DIIS object or DIIS_None.  The result    *)
(* holds the heap, the DIIS object and the operator's coefficients after   *)
(* the call, with the raw and the applied step; coefficients set from a    *)
(* nan vector are nan.                                                     *)
(***************************************************************************)
AmpsResult(err, heap_, diis_, coeffs_, dK_short, dK, used) ==
    [err |-> err, heap |-> heap_, diis |-> diis_, coeffs |-> coeffs_,
     dK_short |-> dK_short, dK |-> dK, used |-> used]

(* M[i][j] *= (denominators[j] + eta) *)
ScaleCols(A, denominators, eta) ==
    Mat(A.r, A.c, LAMBDA i, j : RMul(A.a[i][j], RAdd(denominators[j], eta)))

(* 2.-3. Mn = (X.T @ S @ Delta @ X)[:numnonred, :numnonred] *)
update_amps_Mn(denominators, S, X, numnonred, eta) ==
    MBlock(MMul(ScaleCols(MMul(MT(X), S), denominators, eta), X), numnonred, numnonred)

NegPrefix(v, n) == [k \in 1..n |-> RNeg(v[k])]

update_amps_kn_unit(residual, X, numnonred) ==
    NegPrefix(MVec(MT(X), [k \in 1..Len(residual) |-> One]), numnonred)

(* 1., 3. kn = -(X.T @ residual)[:numnonred] *)
update_amps_kn(residual, X, numnonred) == NegPrefix(MVec(MT(X), residual), numnonred)

RadiusScaled_unlimited(dK_short, dK_short_norm, update_radius) == dK_short

(* 5. the step limited to the update radius *)
RadiusScaled(dK_short, dK_short_norm, update_radius) ==
    IF RLt(update_radius, dK_short_norm)
    THEN VScale(RDiv(update_radius, dK_short_norm), dK_short)
    ELSE dK_short

RadiusStep(dK_short, update_radius) ==
    RadiusScaled(dK_short, RSqrt(NormSq(dK_short)), update_radius)

PadZeros_ones(v, n) == [k \in 1..n |-> IF k <= Len(v) THEN v[k] ELSE One]

(* dK = zeros(namps); dK[x] = step[x] for x < numnonred *)
PadZeros(v, n) == [k \in 1..n |-> IF k <= Len(v) THEN v[k] ELSE Zero]

update_amps_set_unprojected(dK_short, dK, coeffs_, up, P) ==
    IF up.err = "LinAlgError"
    THEN AmpsResult("LinAlgError", up.heap, up.d, coeffs_, dK_short, dK, up.ret)
    ELSE AmpsResult("none", up.heap, up.d, up.heap[up.ret], dK_short, dK, up.ret)

(* t_proj = P @ t; op.set_coefficients(list(t_proj)) *)
update_amps_set(dK_short, dK, coeffs_, up, P) ==
    IF up.err = "LinAlgError"
    THEN AmpsResult("LinAlgError", up.heap, up.d, coeffs_, dK_short, dK, up.ret)
    ELSE IF up.err = "nan"
    THEN AmpsResult("none", up.heap, up.d, VNaN(Len(coeffs_)), dK_short, dK, up.ret)
    ELSE AmpsResult("none", up.heap, up.d, MVec(P, up.heap[up.ret]), dK_short, dK, up.ret)

(* t_old = deepcopy(t); t[x] -= dT[x]; t = diis.update(t, t_old), or without DIIS
   t[x] -= dT[x] alone *)
update_amps_diis(dK_short, dK, coeffs_, t, t_old, heap1, P, diis_) ==
    update_amps_set(dK_short, dK, coeffs_,
        IF diis_.obj = "None" THEN DIIS_outcome(diis_, heap1, t, "none")
        ELSE DIIS_update(diis_, heap1, t, t_old), P)

(* 6. dT = X @ dK *)
update_amps_dT(dK_short, dK, coeffs_, t, heap_, P, X, diis_) ==
    update_amps_diis(dK_short, dK, coeffs_, t, heap_[t],
        [heap_ EXCEPT ![t] = VSub(heap_[t], MVec(X, dK))], P, diis_)

update_amps_step(dK_short, coeffs_, t, heap_, P, X, update_radius, diis_) ==
    update_amps_dT(dK_short, PadZeros(RadiusStep(dK_short, update_radius), X.r),
                   coeffs_, t, heap_, P, X, diis_)

update_amps_solve_silent(Mn, kn, coeffs_, t, heap_, P, X, update_radius, diis_) ==
    IF Singular(Mn)
    THEN AmpsResult("none", heap_, diis_, coeffs_, <<>>, <<>>, t)
    ELSE update_amps_step(linalg_solve(Mn, kn), coeffs_, t, heap_, P, X, update_radius, diis_)

(* 4. dK_short = np.linalg.solve(Mn, kn) *)
update_amps_solve(Mn, kn, coeffs_, t, heap_, P, X, update_radius, diis_) ==
    IF Singular(Mn)
    THEN AmpsResult("LinAlgError", heap_, diis_, coeffs_, <<>>, <<>>, t)
    ELSE update_amps_step(linalg_solve(Mn, kn), coeffs_, t, heap_, P, X, update_radius, diis_)

update_amps_orthogonal(residual, denominators, coeffs_, t, heap_, P, S, X, numnonred, update_radius, eta, diis_) ==
    update_amps_solve(update_amps_Mn(denominators, S, X, numnonred, eta),
                      update_amps_kn(residual, X, numnonred),
                      coeffs_, t, heap_, P, X, update_radius, diis_)

(***************************************************************************)
(* initialize_op.  Orbitals are numbered from 0; all_sym, ea and eb are    *)
(* functions on the orbital numbers.  A leg of an operator is a triplet    *)
(* <<creation, alpha, orb>>.                                               *)
(***************************************************************************)
RECURSIVE Xor(_, _)
Xor(a, b) ==
    IF a = 0 THEN b
    ELSE IF b = 0 THEN a
    ELSE (((a % 2) + (b % 2)) % 2) + 2 * Xor(a \div 2, b \div 2)

RECURSIVE XorReduce(_)
XorReduce(s) == IF Len(s) = 1 THEN s[1] ELSE Xor(s[1], XorReduce(Tail(s)))

sym_dir_prod_blind(occ_list, sym_list) == 0

sym_dir_prod(occ_list, sym_list) ==
    IF Len(occ_list) = 0 THEN 0
    ELSE IF Len(occ_list) = 1 THEN sym_list[occ_list[1]]
    ELSE XorReduce([k \in 1..Len(occ_list) |-> sym_list[occ_list[k]]])

PrependAll(x, cs) == [i \in 1..Len(cs) |-> <<x>> \o cs[i]]

(* itertools.combinations(s, k), in the order it yields them *)
RECURSIVE combinations(_, _)
combinations(s, k) ==
    IF k = 0 THEN << <<>> >>
    ELSE IF Len(s) < k THEN <<>>
    ELSE PrependAll(Head(s), combinations(Tail(s), k - 1)) \o combinations(Tail(s), k)

(* The four innermost loops (ao, av, bo, bv), ao outermost. *)
LoopNest(n, A, V, B, W) ==
    [i \in 1..(Len(A) * Len(V) * Len(B) * Len(W)) |->
        [n |-> n,
         ao |-> A[((i - 1) \div (Len(V) * Len(B) * Len(W))) + 1],
         av |-> V[(((i - 1) \div (Len(B) * Len(W))) % Len(V)) + 1],
         bo |-> B[(((i - 1) \div Len(W)) % Len(B)) + 1],
         bv |-> W[((i - 1) % Len(W)) + 1]]]

LoopSplit(hole, particle, n, nb) ==
    LoopNest(n, combinations(hole, n - nb), combinations(particle, n - nb),
             combinations(hole, nb), combinations(particle, nb))

(* for nb in range(n + 1), from nb on *)
RECURSIVE LoopBeta(_, _, _, _)
LoopBeta(hole, particle, n, nb) ==
    IF nb > n THEN <<>>
    ELSE LoopSplit(hole, particle, n, nb) \o LoopBeta(hole, particle, n, nb + 1)

(* for n in range(1, max_exc + 1), from n on *)
RECURSIVE LoopRank(_, _, _, _)
LoopRank(hole, particle, max_exc, n) ==
    IF n > max_exc THEN <<>>
    ELSE LoopBeta(hole, particle, n, 0) \o LoopRank(hole, particle, max_exc, n + 1)

Reversed(s) == [k \in 1..Len(s) |-> s[Len(s) + 1 - k]]
Legs(s, creation, alpha) == [k \in 1..Len(s) |-> <<creation, alpha, s[k]>>]

(* l: alpha occupied, beta occupied, reversed beta virtual, reversed alpha virtual *)
OperatorLegs(c) ==
    Legs(c.ao, FALSE, TRUE) \o Legs(c.bo, FALSE, FALSE)
        \o Legs(Reversed(c.bv), TRUE, FALSE) \o Legs(Reversed(c.av), TRUE, TRUE)

InAct(g, orb) == \E k \in 1..Len(g.act) : g.act[k] = orb
all_in_act(g, l) == \A k \in 1..Len(l) : InAct(g, l[k][3])
num_act(g, l) == Cardinality({k \in 1..Len(l) : InAct(g, l[k][3])})

(* The symmetry test of the innermost loop. *)
SymmetryAllowed(g, c) ==
    Xor(Xor(Xor(sym_dir_prod(c.ao, g.all_sym), sym_dir_prod(c.av, g.all_sym)),
            sym_dir_prod(c.bo, g.all_sym)), sym_dir_prod(c.bv, g.all_sym)) = g.sym

(* The reordering of a double excitation to act, occ, vir, act under GNO: the
   legs after it, or skip when the code reaches a continue. *)
Reordered(skip, l) == [skip |-> skip, l |-> l]

GNO_reorder_v(g, l) ==
    IF num_act(g, SubSeq(l, 3, 4)) = 1
    THEN IF InAct(g, l[4][3]) THEN Reordered(TRUE, l)
         ELSE Reordered(FALSE, <<l[1], l[2], l[4], l[3]>>)
    ELSE Reordered(FALSE, l)

GNO_reorder_o(g, l) ==
    IF num_act(g, SubSeq(l, 1, 2)) = 1
    THEN IF InAct(g, l[1][3]) THEN Reordered(TRUE, l)
         ELSE GNO_reorder_v(g, <<l[2], l[1], l[3], l[4]>>)
    ELSE GNO_reorder_v(g, l)

GNO_reorder(g, n, l) ==
    IF g.ortho = "GNO" /\ n = 2 /\ num_act(g, l) >= 2 THEN GNO_reorder_o(g, l)
    ELSE Reordered(FALSE, l)

Recorded_internal_too(g, c) ==
    SymmetryAllowed(g, c) /\ ~GNO_reorder(g, c.n, OperatorLegs(c)).skip

(* The combinations of the loop nest for which an operator is recorded. *)
Recorded(g, c) ==
    /\ SymmetryAllowed(g, c)
    /\ ~all_in_act(g, OperatorLegs(c)) \/ g.add_int
    /\ ~GNO_reorder(g, c.n, OperatorLegs(c)).skip

RECURSIVE SumOver(_, _)
SumOver(s, e) == IF s = <<>> THEN 0 ELSE e[s[1]] + SumOver(Tail(s), e)

(* denom = e_aocc + e_bocc - e_bvir - e_avir *)
Denominator(g, c) ==
    RInt(SumOver(c.ao, g.ea) + SumOver(c.bo, g.eb) - SumOver(c.bv, g.eb) - SumOver(c.av, g.ea))

LegIndex(l) == [k \in 1..Len(l) |-> <<l[k][2], l[k][3]>>]

(* What the loop body appends for the k-th operator recorded; forte gives the
   term a negative coefficient for the operators in g.negative. *)
OperatorRecord(g, c, k) ==
    [n |-> c.n,
     l |-> GNO_reorder(g, c.n, OperatorLegs(c)).l,
     idx |-> LegIndex(GNO_reorder(g, c.n, OperatorLegs(c)).l),
     denom |-> Denominator(g, c),
     flip |-> IF k \in g.negative THEN RInt(-1) ELSE One]

RecordedOperators(g, cs) == [k \in 1..Len(cs) |-> OperatorRecord(g, cs[k], k)]

CountRank(ops, n) == Cardinality({k \in 1..Len(ops) : ops[k].n = n})

(* State vectors are kept by what they are: the reference psi (numbered by
   how often it has been replaced), operator k applied to the reference psi
   (apply_operator(T_op_temp, psi)), or another eigenvector i of the Heff that
   gave the reference psi. *)
StateVector(kind, k, psi) == [kind |-> kind, k |-> k, psi |-> psi]
Reference(psi) == StateVector("psi", 0, psi)
BasisVector(k, psi) == StateVector("op", k, psi)
CasVector(i, psi) == StateVector("cas", i, psi)

PositionIn(s, x) == CHOOSE k \in 1..Len(s) : s[k] = x
hole_spin_idx(g, sp) ==
    IF sp[1] THEN (PositionIn(g.occ \o g.act, sp[2]) - 1) * 2
    ELSE (PositionIn(g.occ \o g.act, sp[2]) - 1) * 2 + 1
particle_spin_idx(g, sp) ==
    IF sp[1] THEN (PositionIn(g.act \o g.vir, sp[2]) - 1) * 2
    ELSE (PositionIn(g.act \o g.vir, sp[2]) - 1) * 2 + 1

(* GNO_Y_sub[isingle, idouble]: the entry of _Y_full it reads, times the flip
   of the double. *)
GNO_Y_entry(g, sg, d) ==
    [flip |-> d.flip,
     Y_full |-> << hole_spin_idx(g, sg.idx[1]), particle_spin_idx(g, d.idx[4]),
                   particle_spin_idx(g, d.idx[3]), particle_spin_idx(g, sg.idx[2]),
                   hole_spin_idx(g, d.idx[1]), hole_spin_idx(g, d.idx[2]) >>]

GNO_Y_sub(g, ops, n1) ==
    [i \in 1..n1 |-> [j \in 1..(Len(ops) - n1) |-> GNO_Y_entry(g, ops[i], ops[n1 + j])]]

initialize_op_fill(g, ops, err, Y) ==
    [g EXCEPT !.err = err,
              !.op_idx = [k \in 1..Len(ops) |-> ops[k].idx],
              !.denominators = [k \in 1..Len(ops) |-> ops[k].denom],
              !.flip = [k \in 1..Len(ops) |-> ops[k].flip],
              !.oprator_list = [k \in 1..Len(ops) |-> ops[k].l],
              !.op_A = [k \in 1..Len(ops) |-> ops[k].l],
              !.op_T = [k \in 1..Len(ops) |-> ops[k].l],
              !.num_op = [n \in 1..g.max_exc |-> CountRank(ops, n)],
              !.ic_basis = <<Reference(g.psi)>>
                             \o [k \in 1..Len(ops) |-> BasisVector(k, g.psi)],
              !.GNO_Y = Y]

(* Under GNO the code reads num_op[1]: an IndexError when max_exc is 1. *)
initialize_op_GNO(g, ops) ==
    IF g.ortho # "GNO" THEN initialize_op_fill(g, ops, "none", <<>>)
    ELSE IF g.max_exc < 2 THEN initialize_op_fill(g, ops, "IndexError", <<>>)
    ELSE initialize_op_fill(g, ops, "none", GNO_Y_sub(g, ops, CountRank(ops, 1)))

initialize_op_loop(g, cands) ==
    initialize_op_GNO(g, RecordedOperators(g, SelectSeq(cands, LAMBDA c : Recorded(g, c))))

initialize_op(g) ==
    initialize_op_loop(g, LoopRank(g.occ \o g.act, g.act \o g.vir, g.max_exc, 1))

(***************************************************************************)
(* The effective Hamiltonian builders.  The backend (forte) supplies the   *)
(* overlaps: Overlap(b, i, l, j, m) is forte.overlap of the wave function  *)
(* built from determinant (or basis vector) i with l applications of the   *)
(* cluster operator and the one built from j with m applications and the   *)
(* Hamiltonian, as the backend b returns it.  A backend that screens       *)
(* returns values that are not symmetric in i and j.                       *)
(***************************************************************************)
Backends == {"diagonal", "hermitian", "screened"}

Overlap(b, i, l, j, m) ==
    IF b = "diagonal" THEN (IF i = j THEN RInt(0 - i - l - m) ELSE Zero)
    ELSE IF b = "hermitian" THEN RInt(0 - i - j - l - m)
    ELSE RInt((IF i < j THEN 1 ELSE 0) - i - j - l - m)

(* algo == 'naive': Heff[i,j] = forte.overlap(idet, R), every entry written once *)
Heff_naive(n, b) == Mat(n, n, LAMBDA i, j : Overlap(b, i, 0, j, 0))

SetEntry(H, i, j, v) == [H EXCEPT !.a[i][j] = v]

(* for i in range(n): for j in range(n) *)
LoopPairs(n) == [k \in 1..(n * n) |-> <<((k - 1) \div n) + 1, ((k - 1) % n) + 1>>]

(* algo == 'oprod': Heff[i,j] = forte.overlap(_wfn_list[i], _Hwfn_list[j]);
   Heff[j,i] = Heff[i,j], in the order of the loops *)
RECURSIVE oprod_loop(_, _, _)
oprod_loop(H, pairs, b) ==
    IF pairs = <<>> THEN H
    ELSE oprod_loop(SetEntry(SetEntry(H, pairs[1][1], pairs[1][2],
                                      Overlap(b, pairs[1][1], 0, pairs[1][2], 0)),
                             pairs[1][2], pairs[1][1],
                             Overlap(b, pairs[1][1], 0, pairs[1][2], 0)),
                    Tail(pairs), b)

Heff_oprod(n, b) == oprod_loop(MZeros(n, n), LoopPairs(n), b)

RECURSIVE Factorial(_)
Factorial(n) == IF n = 0 THEN 1 ELSE n * Factorial(n - 1)

(* energy += forte.overlap(left_wfn, right_wfn) / (l! m!) over k in 0..n_comm,
   l in 0..k, m = k - l; left_wfn from j at level l, right_wfn from i at level m *)
comm_energy(b, i, j, n_comm) ==
    RSum([t \in 1..((n_comm + 1) * (n_comm + 1)) |->
            IF ((t - 1) \div (n_comm + 1)) + ((t - 1) % (n_comm + 1)) > n_comm THEN Zero
            ELSE RDiv(Overlap(b, j, (t - 1) \div (n_comm + 1), i, (t - 1) % (n_comm + 1)),
                      RInt(Factorial((t - 1) \div (n_comm + 1))
                             * Factorial((t - 1) % (n_comm + 1))))])

(* commutator: for j <= i, Heff[j,i] = energy and Heff[i,j] = energy *)
Heff_commutator(n, b, n_comm) ==
    Mat(n, n, LAMBDA i, j : comm_energy(b, Max2(i, j), Min2(i, j), n_comm))

(* 3. Form Heff: the commutator flag first, then algo. *)
Heff_build(commutator, algo, n, b, n_comm) ==
    IF commutator THEN Heff_commutator(n, b, n_comm)
    ELSE IF algo = "oprod" THEN Heff_oprod(n, b)
    ELSE IF algo = "naive" THEN Heff_naive(n, b)
    ELSE MZeros(n, n)

IsDiagonal(H) == \A i \in 1..H.r, j \in 1..H.c : i # j => H.a[i][j] = Zero

(* np.real(w[k]) of an eigenvalue, kept exactly: mid + off * r with one r > 0
   for the whole matrix (r is half the square root of the discriminant of a
   2 x 2 matrix). *)
EigValue(mid, off) == [mid |-> mid, off |-> off]
RealLe(a, b) == IF a.mid = b.mid THEN a.off <= b.off ELSE RLt(a.mid, b.mid)

(* (a - d)^2 + 4 b c of a 2 x 2 matrix: negative for a complex pair *)
Discriminant(H) ==
    RAdd(RMul(RSub(H.a[1][1], H.a[2][2]), RSub(H.a[1][1], H.a[2][2])),
         RMul(RInt(4), RMul(H.a[1][2], H.a[2][1])))

HalfTrace(H) == RDiv(RAdd(H.a[1][1], H.a[2][2]), RInt(2))

(* w, vr = scipy.linalg.eig(Heff), w as np.real(w) sees it: the eigenvalues
   of a diagonal matrix come in the order of its diagonal; those of any other
   matrix in an order LAPACK chooses.  The two eigenvalues of a 2 x 2 matrix
   share their real part when the discriminant is not positive; the
   eigenvalues of a larger matrix are taken as distinct, by their order. *)
linalg_eig(Heff) ==
    IF IsDiagonal(Heff) THEN { [k \in 1..Heff.r |-> EigValue(Heff.a[k][k], 0)] }
    ELSE IF Heff.r = 2
    THEN IF RLt(Zero, Discriminant(Heff))
         THEN { <<EigValue(HalfTrace(Heff), -1), EigValue(HalfTrace(Heff), 1)>>,
                <<EigValue(HalfTrace(Heff), 1), EigValue(HalfTrace(Heff), -1)>> }
         ELSE { <<EigValue(HalfTrace(Heff), 0), EigValue(HalfTrace(Heff), 0)>> }
    ELSE { [k \in 1..Heff.r |-> EigValue(Zero, p[k])] : p \in Perms(Heff.r) }

argmin_last(w) ==
    CHOOSE k \in 1..Len(w) :
        /\ \A j \in 1..Len(w) : RealLe(w[k], w[j])
        /\ \A j \in (k + 1)..Len(w) : ~RealLe(w[j], w[k])

(* np.argmin: the first index of the smallest value *)
argmin(w) ==
    CHOOSE k \in 1..Len(w) :
        /\ \A j \in 1..Len(w) : RealLe(w[k], w[j])
        /\ \A j \in 1..(k - 1) : ~RealLe(w[j], w[k])

(* the strategy that fills Heff: the commutator flag first, then algo *)
Heff_strategy(commutator, algo) ==
    IF commutator THEN "commutator"
    ELSE IF algo \in {"naive", "oprod"} THEN algo
    ELSE "none"

ic_basis_new_stale(psi, oprator_list) ==
    <<Reference(psi)>> \o [x \in 1..Len(oprator_list) |-> BasisVector(x, psi - 1)]

(* ic_basis_new = [self.psi] and apply_operator(self.oprator_list[x], self.psi) *)
ic_basis_new(psi, oprator_list) ==
    <<Reference(psi)>> \o [x \in 1..Len(oprator_list) |-> BasisVector(x, psi)]

(* cas_int: the eigenvectors other than idx are appended to self.ic_basis *)
cas_internal(ic_basis, ndets, idx, psi) ==
    ic_basis \o SelectSeq([i \in 1..ndets |-> CasVector(i, psi)], LAMBDA v : v.k # idx)

(* if (self.e - old_e) > 0.0: if (radius > 1e-7): radius /= 2.0 *)
radius_next(e, old_e, radius) ==
    IF RLt(Zero, RSub(e, old_e))
    THEN IF RLtWide(R(1, 10000000), radius) THEN RDiv(radius, RInt(2)) ELSE radius
    ELSE radius

(* abs(self.e - old_e) < e_convergence *)
energy_converged(e, old_e, e_convergence) == RLt(RAbs(RSub(e, old_e)), e_convergence)

(* An orthogonalization call made by the solver, by how it ends: the basis
   vectors are symbolic here, so only the metric of an empty manifold (a 0 x 0
   array) is told apart: np.linalg.eigh returns empty arrays for it in some
   numpy versions and raises LinAlgError in others. *)
orthogonalization_call(ic_basis_full, empty_ok) ==
    IF Len(ic_basis_full) = 1 /\ ~empty_ok THEN "LinAlgError" ELSE "none"

(***************************************************************************)
(* State.                                                                  *)
(***************************************************************************)
VARIABLES
    npc,      \* numerical layer: "off", "start", "ortho", "error", "diis"
    ncfg,     \* the arguments of the numerical calls
    orth,     \* the last orthogonalization's result (P, S, X, numnonred)
    heap,     \* the contents of the Python lists alive: heap[ref]
    diis,     \* the DIIS object, or DIIS_None
    coeffs,   \* the coefficients of the cluster operator op
    last,     \* the last call: its arguments, what it returned or raised
    ncalls,   \* calls made so far
    gpc,      \* initialize_op: "off", "new", "done"
    gen,      \* the EOM_MRCC object's fields that initialize_op reads and fills
    spc,      \* run_ic_mrcc: the position in the function, "off" when not running
    sol       \* the solver's object fields, locals, output and outcome

numVars == <<npc, ncfg, orth, heap, diis, coeffs, last, ncalls>>
genVars == <<gpc, gen>>
solVars == <<spc, sol>>
vars == <<npc, ncfg, orth, heap, diis, coeffs, last, ncalls, gpc, gen, spc, sol>>

NumOff ==
    /\ npc = "off"
    /\ ncfg = [case |-> "none"]
    /\ orth = [err |-> "unset"]
    /\ heap = <<>>
    /\ diis = DIIS_None
    /\ coeffs = <<>>
    /\ last = [call |-> "none"]
    /\ ncalls = 0
GenOff == gpc = "off" /\ gen = [err |-> "unset"]
SolOff == spc = "off" /\ sol = [iter |-> 0]

(***************************************************************************)
(* Inputs of the numerical specification.  The amplitude list self.t is    *)
(* the list with reference 1.                                              *)
(***************************************************************************)
MaxUpdates == 2

psi0 == <<One, Zero>>

(* GNO_Y = identity; GNO_Y[:n1, n1:] = GNO_Y_sub (entries g here). *)
GNO_Y(n1, n2, g) ==
    Mat(n1 + n2, n1 + n2,
        LAMBDA i, j : IF i = j THEN One ELSE IF i <= n1 /\ j > n1 THEN g ELSE Zero)

NumCase(ortho, basis, num_op, g) ==
    [ortho |-> ortho, ic_basis |-> <<psi0>> \o basis, num_op |-> num_op,
     Y |-> GNO_Y(num_op[1], num_op[2], g)]

NumCases ==
    { NumCase("direct", << <<One, Zero>>, <<Zero, RInt(2)>> >>, <<1, 1>>, Zero),
      NumCase("direct", << <<R(3, 5), R(-8, 5)>>, <<R(4, 5), R(6, 5)>> >>, <<1, 1>>, Zero),
      NumCase("direct", << <<Zero, RInt(-4)>>, <<Zero, RInt(3)>> >>, <<1, 1>>, Zero),
      NumCase("direct", << <<One, Zero>>, <<Zero, Zero>> >>, <<2, 0>>, Zero),
      NumCase("direct", << <<RInt(2), Zero>> >>, <<1, 0>>, Zero),
      NumCase("projective", << <<One, Zero>>, <<Zero, RInt(2)>> >>, <<1, 1>>, Zero),
      NumCase("projective", << <<One, Zero>>, <<R(3, 5), R(4, 5)>> >>, <<1, 1>>, Zero),
      NumCase("projective", << <<Zero, RInt(-4)>>, <<Zero, RInt(3)>> >>, <<1, 1>>, Zero),
      NumCase("projective", << <<One, Zero>>, <<Zero, Zero>> >>, <<2, 0>>, Zero),
      NumCase("projective", << <<One, Zero>>, <<Zero, RInt(2)>> >>, <<2, 0>>, Zero),
      NumCase("GNO", << <<One, Zero>>, <<Zero, RInt(2)>> >>, <<1, 1>>, Zero),
      NumCase("GNO", << <<One, Zero>>, <<R(3, 5), R(4, 5)>> >>, <<1, 1>>, R(-3, 5)),
      NumCase("GNO", << <<One, Zero>>, <<R(3, 5), Zero>> >>, <<1, 1>>, R(-3, 5)),
      NumCase("GNO", << <<Zero, Zero>>, <<Zero, One>> >>, <<1, 1>>, R(1, 2)) }

Thresholds == { R(1, 1000000), R(1, 2) }
Denominators(n) == { [k \in 1..n |-> RInt(-(2 * k - 1))] }
Etas == { One, RInt(2) }
Radii == { R(1, 100), RInt(10) }
ResidualPool == { <<Zero, Zero>>, <<RInt(3), RInt(4)>>, <<Zero, RInt(-8)>> }
Residuals(n) == { SubSeq(r, 1, n) : r \in ResidualPool }
(* diis = None, or DIIS(self.t, diis_start). *)
DiisChoices == { [on |-> FALSE, diis_start |-> 3] } \cup { [on |-> TRUE, diis_start |-> k] : k \in {-1, 1} }

NumInit ==
    /\ npc = "start"
    /\ ncfg \in { [case |-> c, thres |-> th, denominators |-> d, eta |-> eta, diis |-> ds] :
                    c \in NumCases, th \in Thresholds,
                    d \in UNION { Denominators(n) : n \in 1..2 }, eta \in Etas,
                    ds \in DiisChoices }
    /\ Len(ncfg.denominators) = Len(ncfg.case.ic_basis) - 1
    /\ orth = [err |-> "unset"]
    /\ heap = << VZeros(Len(ncfg.case.ic_basis) - 1) >>
    /\ diis = IF ncfg.diis.on THEN DIIS_init(1, ncfg.diis.diis_start) ELSE DIIS_None
    /\ coeffs = VZeros(Len(ncfg.case.ic_basis) - 1)
    /\ last = [call |-> "none"]
    /\ ncalls = 0
    /\ GenOff
    /\ SolOff

(* The dispatch on self.ortho of run_ic_mrcc. *)
Orthogonalize(c, thres) ==
    IF c.ortho = "direct" THEN orthogonalization(c.ic_basis, thres, FALSE, 0)
    ELSE IF c.ortho = "projective" THEN orthogonalization_projective(c.ic_basis, c.num_op, thres)
    ELSE orthogonalization_GNO(c.ic_basis, c.Y, thres)

NumOrthogonalize ==
    /\ npc = "start"
    /\ orth' = Orthogonalize(ncfg.case, ncfg.thres)
    /\ npc' = IF orth'.err = "none" THEN "ortho" ELSE "error"
    /\ UNCHANGED <<ncfg, heap, diis, coeffs, last, ncalls, genVars, solVars>>

(* The raw step's norm is a rational: the residuals whose step has an irrational
   norm are left out. *)
SolvableExactly(Mn, kn) ==
    IF Singular(Mn) THEN TRUE ELSE RIsSquare(NormSq(linalg_solve(Mn, kn)))

StepRepresentable(residual) ==
    SolvableExactly(update_amps_Mn(ncfg.denominators, orth.S, orth.X, orth.numnonred, ncfg.eta),
                    update_amps_kn(residual, orth.X, orth.numnonred))

NumRecord(res, residual, radius) ==
    /\ heap' = res.heap
    /\ diis' = res.diis
    /\ coeffs' = res.coeffs
    /\ last' = [call |-> "update_amps_orthogonal", err |-> res.err,
                residual |-> residual, update_radius |-> radius,
                dK_short |-> res.dK_short, dK |-> res.dK, ret |-> res.used,
                t_before |-> heap[1], coeffs_before |-> coeffs, diis_before |-> diis]
    /\ npc' = IF res.err = "none" THEN "ortho" ELSE "error"

NumUpdateAmps ==
    /\ npc = "ortho"
    /\ ncalls < MaxUpdates
    /\ \E residual \in Residuals(orth.S.r), radius \in Radii :
         /\ StepRepresentable(residual)
         /\ NumRecord(update_amps_orthogonal(residual, ncfg.denominators, coeffs, 1, heap,
                                             orth.P, orth.S, orth.X, orth.numnonred,
                                             radius, ncfg.eta, diis),
                      residual, radius)
    /\ ncalls' = ncalls + 1
    /\ UNCHANGED <<ncfg, orth, genVars, solVars>>

NumNext == NumOrthogonalize \/ NumUpdateAmps

SpecNum == NumInit /\ [][NumNext]_vars

(***************************************************************************)
(* Properties of the numerical layer.                                      *)
(***************************************************************************)
Stepped == last.call = "update_amps_orthogonal" /\ last.dK # <<>>
RawNorm == RSqrt(NormSq(last.dK_short))
Parallel(dK, dK_short, norm, radius) ==
    \A k \in 1..Len(dK_short) : RMul(dK[k], norm) = RMul(radius, dK_short[k])

(* C2: whenever update_amps_orthogonal has taken a step, the step dK applied
   in the non-redundant space has norm at most update_radius; a raw step
   longer than the radius is applied with norm exactly the radius and its
   direction kept, a raw step within the radius is applied as it is; the
   entries past numnonred are zero and t has moved by X @ dK. *)
C2_StepWithinRadius ==
    Stepped =>
        /\ RLe(NormSq(last.dK), RMul(last.update_radius, last.update_radius))
        /\ IF RLt(last.update_radius, RawNorm)
           THEN /\ NormSq(last.dK) = RMul(last.update_radius, last.update_radius)
                /\ Parallel(last.dK, last.dK_short, RawNorm, last.update_radius)
           ELSE SubSeq(last.dK, 1, Len(last.dK_short)) = last.dK_short
        /\ \A k \in (Len(last.dK_short) + 1)..Len(last.dK) : last.dK[k] = Zero
        /\ heap[1] = VSub(last.t_before, MVec(orth.X, last.dK))

C2_Witness ==
    /\ Stepped
    /\ last.err = "none"
    /\ RLt(last.update_radius, RawNorm)
    /\ Len(last.dK_short) = 2

(* X restricted to its first numnonred columns, applied to the first
   numnonred entries of dK. *)
NonRedundantPart(X, dK, numnonred) ==
    MVec(MCols(X, [j \in 1..numnonred |-> j]), SubSeq(dK, 1, numnonred))

(* C17: whenever update_amps_orthogonal has taken a step, dK has one entry
   per amplitude, its entries past the first numnonred are zero, and the
   change of t is X's first numnonred columns applied to dK's first numnonred
   entries: the redundant directions get no update. *)
C17_RedundantDirectionsUntouched ==
    Stepped =>
        /\ Len(last.dK) = orth.S.r
        /\ \A k \in (orth.numnonred + 1)..Len(last.dK) : last.dK[k] = Zero
        /\ VSub(last.t_before, heap[1]) = NonRedundantPart(orth.X, last.dK, orth.numnonred)

C17_Witness ==
    /\ Stepped
    /\ orth.numnonred = 1 /\ orth.S.r = 2
    /\ last.dK[1] # Zero
    /\ heap[1] # last.t_before

(* C4: after each of the three orthogonalization variants, X^T S X is the
   identity on the first numnonred rows and columns and zero elsewhere. *)
C4_XSX_Identity ==
    npc = "ortho" => test_orthogonalization(orth.X, orth.S, orth.numnonred)

(* C5: the projector P returned by each of the three orthogonalization
   variants is idempotent and symmetric. *)
C5_Projector ==
    npc = "ortho" => MMul(orth.P, orth.P) = orth.P /\ MIsSymmetric(orth.P)

(***************************************************************************)
(* The DIIS class on its own: a caller that owns a few lists, changes them *)
(* in place (as update_amps_orthogonal does with t[x] -= dT[x]) and calls  *)
(* update with any of them and any t_old.                                  *)
(***************************************************************************)
MaxCalls == 2
MaxLists == 2

DVecs ==
    { <<Zero, Zero, Zero>>, <<One, Zero, Zero>>, <<One, RInt(2), RInt(-1)>>,
      <<Zero>>, <<One>> }
(* The vectors as long as the caller's amplitude lists. *)
DVecsLike(heap_) == { v \in DVecs : Len(v) = Len(heap_[1]) }
DiisStarts == { -1, 0, 2 }

DiisInit ==
    /\ npc = "diis"
    /\ ncfg = [case |-> "none"]
    /\ orth = [err |-> "unset"]
    /\ heap \in { <<v>> : v \in DVecs }
    /\ diis \in { DIIS_init(1, k) : k \in DiisStarts }
    /\ coeffs = <<>>
    /\ last = [call |-> "none"]
    /\ ncalls = 0
    /\ GenOff
    /\ SolOff

(* The caller builds another list. *)
DiisNewList ==
    /\ npc = "diis"
    /\ Len(heap) < MaxLists
    /\ \E v \in DVecsLike(heap) : heap' = Append(heap, v)
    /\ UNCHANGED <<npc, ncfg, orth, diis, coeffs, last, ncalls, genVars, solVars>>

(* The caller changes a list of its own in place. *)
DiisSetItems ==
    /\ npc = "diis"
    /\ \E ref \in 1..MaxLists, v \in DVecsLike(heap) :
         /\ ref <= Len(heap)
         /\ heap[ref] # v
         /\ heap' = [heap EXCEPT ![ref] = v]
    /\ last' = [call |-> "setitem"]
    /\ UNCHANGED <<npc, ncfg, orth, diis, coeffs, ncalls, genVars, solVars>>

DiisRecord(res, t, t_old) ==
    /\ heap' = res.heap
    /\ diis' = res.d
    /\ last' = [call |-> "DIIS.update", err |-> res.err, t |-> t, t_old |-> t_old,
                ret |-> res.ret, heap_before |-> heap, heap_after |-> res.heap,
                diis_before |-> diis, calls_before |-> ncalls]
    /\ npc' = IF res.err = "LinAlgError" THEN "error" ELSE "diis"

(* diis.update(t, t_old) *)
DiisUpdate ==
    /\ npc = "diis"
    /\ ncalls < MaxCalls
    /\ \E t \in 1..MaxLists, t_old \in DVecsLike(heap) :
         /\ t <= Len(heap)
         /\ heap[t] # VNaN(Len(heap[t]))
         /\ DiisRecord(DIIS_update(diis, heap, t, t_old), t, t_old)
    /\ ncalls' = ncalls + 1
    /\ UNCHANGED <<ncfg, orth, coeffs, genVars, solVars>>

DiisNext == DiisNewList \/ DiisSetItems \/ DiisUpdate

SpecDIIS == DiisInit /\ [][DiisNext]_vars

(* C1: a call of update on a DIIS object made with diis_start = -1 returns
   the very list t it was given, with its contents as they were, changes no
   list, and leaves the amplitude history t_diis and the error history e_diis
   as the constructor made them, however many calls came before. *)
C1_DiisOffIsNoOp ==
    (last.call = "DIIS.update" /\ last.diis_before.diis_start = -1) =>
        /\ last.err = "none"
        /\ last.ret = last.t
        /\ last.heap_after = last.heap_before
        /\ diis = last.diis_before
        /\ diis.t_diis = <<1>> /\ diis.e_diis = <<>>

C1_Witness ==
    /\ last.call = "DIIS.update"
    /\ last.diis_before.diis_start = -1
    /\ last.calls_before = MaxCalls - 1
    /\ last.t = 2
    /\ last.t_old # last.heap_before[last.t]

(* A call of update on a DIIS object that records (diis_start is not -1). *)
DiisCalled == last.call = "DIIS.update" /\ last.diis_before.diis_start # -1
HistorySize == Len(diis.e_diis)
InWindow ==
    HistorySize >= diis.diis_start /\ HistorySize < Len(last.heap_before[last.t])

(* C19: a call of update on a recording DIIS object appends one error vector;
   when the number of error vectors is then at least diis_start and below
   len(t), the call extrapolates: it returns a new list (unless solving the
   DIIS equations raises); in every other case it returns the list t it was
   given and changes no list, so that once the number of error vectors has
   reached len(t) no call extrapolates. *)
C19_ExtrapolatesInWindowOnly ==
    DiisCalled =>
        /\ HistorySize = Len(last.diis_before.e_diis) + 1
        /\ IF InWindow
           THEN \/ last.err = "LinAlgError"
                \/ /\ last.ret = Len(last.heap_before) + 1
                   /\ Len(last.heap_after) = Len(last.heap_before) + 1
           ELSE /\ last.err = "none"
                /\ last.ret = last.t
                /\ last.heap_after = last.heap_before

C19_Witness ==
    /\ DiisCalled
    /\ diis.diis_start = 0
    /\ HistorySize = 2
    /\ Len(last.heap_before[last.t]) = 1
    /\ last.ret = last.t

(***************************************************************************)
(* The excitation manifold: an EOM_MRCC object is constructed over a small *)
(* orbital set with 2 irreps, and initialize_op is called.                 *)
(***************************************************************************)
Layout(occ, act, vir) == [occ |-> occ, act |-> act, vir |-> vir]
Layouts ==
    { Layout(<<0>>, <<1>>, <<2>>), Layout(<<0>>, <<1, 2>>, <<3>>),
      Layout(<<>>, <<0, 1>>, <<>>), Layout(<<0, 1>>, <<2>>, <<3>>) }
NOrb(lay) == Len(lay.occ) + Len(lay.act) + Len(lay.vir)
Irreps == {0, 1}
Orthos == {"direct", "projective", "GNO"}
Negatives == { {}, {1, 2} }

(* The fields __init__ sets; those initialize_op fills do not exist yet. *)
EOM_MRCC_init(lay, all_sym, sym, max_exc, ortho, add_int, negative, flags) ==
    [commutator |-> flags.commutator, cas_int |-> flags.cas_int, n_comm |-> flags.n_comm,
     ndets |-> flags.ndets, occ |-> lay.occ, act |-> lay.act, vir |-> lay.vir, all_sym |-> all_sym,
     sym |-> sym, max_exc |-> max_exc, ortho |-> ortho, add_int |-> add_int,
     ea |-> [i \in 0..(NOrb(lay) - 1) |-> i], eb |-> [i \in 0..(NOrb(lay) - 1) |-> i],
     negative |-> negative, psi |-> 0, err |-> "none",
     op_idx |-> <<>>, denominators |-> <<>>, flip |-> <<>>, oprator_list |-> <<>>,
     op_A |-> <<>>, op_T |-> <<>>, num_op |-> <<>>, ic_basis |-> <<>>, GNO_Y |-> <<>>]

Flags(commutator, cas_int, n_comm, ndets) ==
    [commutator |-> commutator, cas_int |-> cas_int, n_comm |-> n_comm, ndets |-> ndets]

GenObjects ==
    UNION { { EOM_MRCC_init(lay, all_sym, sym, max_exc, ortho, add_int, negative,
                            Flags(FALSE, FALSE, 2, 2)) :
                all_sym \in [0..(NOrb(lay) - 1) -> Irreps], sym \in Irreps,
                max_exc \in {1, 2}, ortho \in Orthos, add_int \in BOOLEAN,
                negative \in Negatives } : lay \in Layouts }

GenInit ==
    /\ gpc = "new"
    /\ gen \in GenObjects
    /\ NumOff
    /\ SolOff

GenInitializeOp ==
    /\ gpc = "new"
    /\ gen' = initialize_op(gen)
    /\ gpc' = IF gen'.err = "none" THEN "done" ELSE "error"
    /\ UNCHANGED <<numVars, solVars>>

GenNext == GenInitializeOp

SpecInit == GenInit /\ [][GenNext]_vars

RECURSIVE LegsIrrep(_, _)
LegsIrrep(orbs, all_sym) ==
    IF orbs = <<>> THEN 0 ELSE Xor(all_sym[orbs[1]], LegsIrrep(Tail(orbs), all_sym))
IdxOrbitals(idx) == [k \in 1..Len(idx) |-> idx[k][2]]
TermOrbitals(l) == [k \in 1..Len(l) |-> l[k][3]]

(* C3: every operator that initialize_op has recorded, in op_idx and in
   oprator_list (and so behind every entry of ic_basis past the reference),
   has the XOR of the irreps of all its legs equal to the target irrep sym. *)
C3_RecordedSymmetry ==
    gpc # "new" =>
        /\ Len(gen.ic_basis) = Len(gen.op_idx) + 1
        /\ Len(gen.oprator_list) = Len(gen.op_idx)
        /\ \A k \in 1..Len(gen.op_idx) :
              /\ LegsIrrep(IdxOrbitals(gen.op_idx[k]), gen.all_sym) = gen.sym
              /\ LegsIrrep(TermOrbitals(gen.oprator_list[k]), gen.all_sym) = gen.sym

C3_Witness ==
    /\ gpc = "done"
    /\ gen.sym = 1
    /\ \E k \in 1..Len(gen.op_idx) :
          /\ Len(gen.op_idx[k]) = 4
          /\ \E j \in 1..4 : gen.all_sym[gen.op_idx[k][j][2]] = 1
          /\ \E j \in 1..4 : gen.all_sym[gen.op_idx[k][j][2]] = 0
    /\ Len(gen.op_idx) < Len(LoopRank(gen.occ \o gen.act, gen.act \o gen.vir, gen.max_exc, 1))

(* The combinations the loop nest of initialize_op goes through, in its order. *)
Candidates(g) == LoopRank(g.occ \o g.act, g.act \o g.vir, g.max_exc, 1)
LegSet(l) == { l[k] : k \in 1..Len(l) }
FullyActive(g, orbs) == \A k \in 1..Len(orbs) : \E j \in 1..Len(g.act) : g.act[j] = orbs[k]
TimesRecorded(g, c) ==
    Cardinality({ k \in 1..Len(g.oprator_list) :
                    LegSet(g.oprator_list[k]) = LegSet(OperatorLegs(c)) })

(* C21: for every rank, every (alpha, beta) split and every combination of
   hole and particle orbitals that passes the symmetry test and is not fully
   inside the active space, exactly one operator is recorded, in each of the
   three orthogonalization modes. *)
C21_ManifoldComplete ==
    gpc # "new" =>
        \A i \in 1..Len(Candidates(gen)) :
            (/\ SymmetryAllowed(gen, Candidates(gen)[i])
             /\ ~FullyActive(gen, TermOrbitals(OperatorLegs(Candidates(gen)[i]))))
                => TimesRecorded(gen, Candidates(gen)[i]) = 1

(* C22: with add_int false no recorded operator has all its legs on active
   orbitals; with add_int true every fully active combination that passes
   the symmetry test is recorded, once. *)
C22_InternalOnlyWithAddInt ==
    gpc # "new" =>
        /\ ~gen.add_int =>
              \A k \in 1..Len(gen.oprator_list) :
                  /\ ~FullyActive(gen, TermOrbitals(gen.oprator_list[k]))
                  /\ ~FullyActive(gen, IdxOrbitals(gen.op_idx[k]))
        /\ gen.add_int =>
              \A i \in 1..Len(Candidates(gen)) :
                  (/\ SymmetryAllowed(gen, Candidates(gen)[i])
                   /\ FullyActive(gen, TermOrbitals(OperatorLegs(Candidates(gen)[i]))))
                      => TimesRecorded(gen, Candidates(gen)[i]) = 1

C22_Witness ==
    /\ gpc = "done"
    /\ gen.add_int /\ gen.ortho = "GNO"
    /\ \E k \in 1..Len(gen.oprator_list) :
          /\ Len(gen.oprator_list[k]) = 4
          /\ FullyActive(gen, TermOrbitals(gen.oprator_list[k]))
    /\ \E k \in 1..Len(gen.oprator_list) :
          ~FullyActive(gen, TermOrbitals(gen.oprator_list[k]))

(***************************************************************************)
(* The solver: an object is constructed, initialize_op is called, then     *)
(* run_ic_mrcc, then the get_hbar methods.  The backend supplies the       *)
(* energies and the overlaps; update_amps_orthogonal is taken by its       *)
(* outcome (the amplitudes are numbered by how often they were changed).   *)
(***************************************************************************)
MaxCcIter == 2
MaxDets == 2

Energies == { Zero, RInt(-5), R(-9, 2) }

SolverObject(lay, max_exc, ortho, commutator, cas_int) ==
    EOM_MRCC_init(lay, [i \in 0..(NOrb(lay) - 1) |-> 0], 0, max_exc, ortho, FALSE, {},
                  Flags(commutator, cas_int, 2, MaxDets))

SolverObjects ==
    { SolverObject(c[1], c[2], c[3], commutator, cas_int) :
        c \in { <<Layout(<<>>, <<0, 1>>, <<>>), 2, "direct">>,
                 <<Layout(<<>>, <<0, 1>>, <<>>), 2, "lowdin">>,
                 <<Layout(<<>>, <<0, 1>>, <<>>), 2, "GNO">>,
                 <<Layout(<<0>>, <<>>, <<1>>), 1, "direct">>,
                 <<Layout(<<0>>, <<>>, <<1>>), 2, "projective">> },
        commutator \in BOOLEAN, cas_int \in BOOLEAN }

(* The values of algo: the two run_ic_mrcc knows, and 'matmul', which only
   run_eom_ee_mrcc knows. *)
Algos == {"naive", "oprod", "matmul"}

(* The arguments of run_ic_mrcc and the numpy at hand; the other fields are
   set by the run. *)
RunArgs(e_convergence, max_cc_iter, algo, empty_ok) ==
    [e_convergence |-> e_convergence, max_cc_iter |-> max_cc_iter, algo |-> algo,
     empty_ok |-> empty_ok,
     iter |-> 0, old_e |-> Zero, e |-> Zero, has_e |-> FALSE, energies |-> <<>>,
     radius |-> Zero, t |-> -1, Heff |-> MZeros(0, 0), strategy |-> "none", w |-> <<>>,
     idx |-> 0, psi_col |-> 0, psi_keys |-> <<>>, e_t |-> -1, e_psi |-> -1,
     ic_basis_new |-> <<>>,
     n_ortho |-> 0, n_resid |-> 0, n_update |-> 0, out |-> <<>>,
     converged |-> FALSE, err |-> "none", ret |-> "running", Hbar_ic |-> MZeros(0, 0)]

SolInit ==
    /\ gpc = "new"
    /\ gen \in SolverObjects
    /\ spc = "ready"
    /\ sol \in { RunArgs(One, m, algo, empty_ok) :
                   m \in {1, MaxCcIter}, algo \in Algos, empty_ok \in BOOLEAN }
    /\ NumOff

Raise(err) == [sol EXCEPT !.err = err, !.ret = "raised"]

(* Lines 858-886: t = 0, the DIIS object, old_e = 0.0, the table header, the
   first orthogonalization, radius = 0.01.  No branch of lines 879-884 is
   taken for an ortho that is none of the three: P, S, X and numnonred stay
   unbound.  self.psi is the CASCI vector, keyed by self.dets (line 427). *)
SolStart ==
    /\ gpc = "done"
    /\ spc = "ready"
    /\ IF gen.ortho \notin Orthos
       THEN /\ sol' = [sol EXCEPT !.t = 0, !.old_e = Zero, !.out = <<"header">>,
                                  !.radius = R(1, 100),
                                  !.psi_keys = [k \in 1..gen.ndets |-> k]]
            /\ spc' = IF sol.max_cc_iter > 0 THEN "residual" ELSE "done"
       ELSE IF orthogonalization_call(gen.ic_basis, sol.empty_ok) = "none"
       THEN /\ sol' = [sol EXCEPT !.t = 0, !.old_e = Zero, !.out = <<"header">>,
                                  !.n_ortho = 1, !.radius = R(1, 100),
                                  !.psi_keys = [k \in 1..gen.ndets |-> k]]
            /\ spc' = IF sol.max_cc_iter > 0 THEN "residual" ELSE "done"
       ELSE /\ sol' = [Raise("LinAlgError") EXCEPT !.t = 0, !.out = <<"header">>,
                                                   !.n_ortho = 1,
                                                   !.psi_keys = [k \in 1..gen.ndets |-> k]]
            /\ spc' = "error"
    /\ UNCHANGED <<numVars, genVars>>

(* 1. the residual and the energy, then the radius *)
SolResidual ==
    /\ spc = "residual"
    /\ \E e \in Energies :
         sol' = [sol EXCEPT !.e = e, !.has_e = TRUE, !.energies = Append(@, e),
                            !.n_resid = @ + 1, !.e_t = sol.t, !.e_psi = gen.psi,
                            !.radius = radius_next(e, sol.old_e, @)]
    /\ spc' = "update"
    /\ UNCHANGED <<numVars, genVars>>

(* 2. update_amps_orthogonal: it changes t in place, or np.linalg.solve
   raises before anything is changed; with P unbound the call is not made *)
SolUpdateAmps ==
    /\ spc = "update"
    /\ \E err \in {"none", "LinAlgError"} :
         IF gen.ortho \notin Orthos
         THEN sol' = Raise("UnboundLocalError") /\ spc' = "error"
         ELSE IF err = "none"
         THEN sol' = [sol EXCEPT !.t = @ + 1, !.n_update = @ + 1] /\ spc' = "heff"
         ELSE sol' = [Raise(err) EXCEPT !.n_update = @ + 1] /\ spc' = "error"
    /\ UNCHANGED <<numVars, genVars>>

(* 3. Form Heff *)
SolHeff ==
    /\ spc = "heff"
    /\ \E b \in Backends :
         sol' = [sol EXCEPT !.Heff = Heff_build(gen.commutator, sol.algo, gen.ndets, b,
                                                gen.n_comm),
                            !.strategy = Heff_strategy(gen.commutator, sol.algo)]
    /\ spc' = "eig"
    /\ UNCHANGED <<numVars, genVars>>

(* Lines 959-973: the new reference, ic_basis_new, the orthogonalization *)
SolDiagonalize ==
    /\ spc = "eig"
    /\ \E w \in linalg_eig(sol.Heff) :
         /\ gen' = [gen EXCEPT !.psi = @ + 1]
         /\ sol' = [sol EXCEPT !.w = w, !.idx = argmin(w), !.psi_col = argmin(w),
                               !.psi_keys = [k \in 1..sol.Heff.r |-> k],
                               !.n_ortho = @ + 1,
                               !.ic_basis_new = ic_basis_new(gen.psi + 1, gen.oprator_list)]
    /\ spc' = "check"
    /\ UNCHANGED <<numVars, gpc>>

(* 4., 5. and the loop's end: the line printed, self.ic_basis, the convergence
   test with its break, old_e = self.e *)
SolCheck ==
    /\ spc = "check"
    /\ IF energy_converged(sol.e, sol.old_e, sol.e_convergence)
       THEN /\ gen' = [gen EXCEPT !.ic_basis =
                          IF gen.cas_int
                          THEN cas_internal(sol.ic_basis_new, gen.ndets, sol.idx, gen.psi)
                          ELSE sol.ic_basis_new]
            /\ sol' = [sol EXCEPT !.out = @ \o <<"iteration", "energy", "selected">>
                                              \o (IF gen.cas_int THEN <<"cas_internal">>
                                                  ELSE <<>>),
                                  !.n_ortho = @ + 1, !.converged = TRUE, !.ret = "None"]
            /\ spc' = "done"
       ELSE /\ gen' = [gen EXCEPT !.ic_basis = sol.ic_basis_new]
            /\ sol' = [sol EXCEPT !.out = Append(@, "iteration"), !.old_e = sol.e,
                                  !.iter = @ + 1,
                                  !.ret = IF sol.iter + 1 < sol.max_cc_iter THEN "running"
                                          ELSE "None"]
            /\ spc' = IF sol.iter + 1 < sol.max_cc_iter THEN "residual" ELSE "done"
    /\ UNCHANGED <<numVars, gpc>>

get_hbar_naive ==
    /\ spc = "done"
    /\ \E b \in Backends :
         sol' = [sol EXCEPT !.Hbar_ic = Mat(Len(gen.ic_basis), Len(gen.ic_basis),
                                            LAMBDA i, j : Overlap(b, j, 0, i, 0))]
    /\ spc' = "hbar"
    /\ UNCHANGED <<numVars, genVars>>

get_hbar_oprod ==
    /\ spc = "done"
    /\ \E b \in Backends : sol' = [sol EXCEPT !.Hbar_ic = Heff_oprod(Len(gen.ic_basis), b)]
    /\ spc' = "hbar"
    /\ UNCHANGED <<numVars, genVars>>

get_hbar_commutator ==
    /\ spc = "done"
    /\ \E b \in Backends :
         sol' = [sol EXCEPT !.Hbar_ic = Heff_commutator(Len(gen.ic_basis), b, gen.n_comm)]
    /\ spc' = "hbar"
    /\ UNCHANGED <<numVars, genVars>>

SolNext ==
    \/ GenInitializeOp
    \/ SolStart
    \/ SolResidual
    \/ SolUpdateAmps
    \/ SolHeff
    \/ SolDiagonalize
    \/ SolCheck
    \/ get_hbar_naive
    \/ get_hbar_oprod
    \/ get_hbar_commutator

SpecSolver == SolInit /\ [][SolNext]_vars

(***************************************************************************)
(* Properties of the solver.                                               *)
(***************************************************************************)
NOps == Len(gen.oprator_list)
AfterInitializeOp == gpc = "done" /\ spc = "ready"
IterationEnded == (spc = "residual" /\ sol.iter > 0) \/ spc \in {"done", "hbar"}
Finished == spc \in {"done", "hbar"}
Manifold == <<Reference(gen.psi)>> \o [k \in 1..NOps |-> BasisVector(k, gen.psi)]
SuccessiveWithin(energies, j, tol) == RLt(RAbs(RSub(energies[j], energies[j - 1])), tol)

(* C6: the matrix every builder leaves, Heff in run_ic_mrcc and Hbar_ic in the
   get_hbar methods, has M[i,j] = M[j,i] for all i, j, whatever the backend's
   overlaps are. *)
C6_BuildersSymmetric == MIsSymmetric(sol.Heff) /\ MIsSymmetric(sol.Hbar_ic)

(* C7: when initialize_op has recorded no operator, run_ic_mrcc once called has
   ended in an error, and it has evaluated no residual, orthogonalized nothing
   and updated no amplitudes. *)
C7_FailFastOnEmptyManifold ==
    (gpc = "done" /\ NOps = 0 /\ spc # "ready") =>
        /\ spc = "error"
        /\ sol.n_ortho = 0 /\ sol.n_resid = 0 /\ sol.n_update = 0

(* C8 as stated: after initialize_op and at the end of every outer iteration,
   the converging one included, ic_basis is exactly the reference psi followed
   by every operator applied to the current psi (length 1 + number of
   operators). *)
C8_BasisIsManifold == (AfterInitializeOp \/ IterationEnded) => gen.ic_basis = Manifold

(* C8 amended: after initialize_op and at the end of every outer iteration the
   first 1 + number of operators entries of ic_basis are the current psi and
   every operator applied to the current psi; nothing follows them, except at
   the end of the converging iteration with cas_int set, where the
   len(dets) - 1 eigenvectors of Heff other than the new reference follow. *)
C8_BasisStartsWithManifold ==
    (AfterInitializeOp \/ IterationEnded) =>
        /\ Len(gen.ic_basis) =
             1 + NOps + (IF sol.converged /\ gen.cas_int THEN gen.ndets - 1 ELSE 0)
        /\ SubSeq(gen.ic_basis, 1, 1 + NOps) = Manifold
        /\ \A k \in (2 + NOps)..Len(gen.ic_basis) :
              /\ gen.ic_basis[k].kind = "cas"
              /\ gen.ic_basis[k].psi = gen.psi
              /\ gen.ic_basis[k].k # sol.idx

C8_Witness ==
    /\ spc = "done"
    /\ sol.converged /\ gen.cas_int
    /\ NOps >= 2
    /\ gen.psi = 2
    /\ Len(gen.ic_basis) > 1 + NOps

(* C9: run_ic_mrcc makes at most max_cc_iter iterations, and it has stopped
   early exactly at the first iteration whose energy differs from the energy
   of the iteration before it by less than e_convergence: convergence is
   declared from two successive iterations' energies and from nothing else. *)
C9_StopsOnSuccessiveEnergies ==
    /\ Len(sol.energies) <= sol.max_cc_iter
    /\ \A j \in 2..(Len(sol.energies) - 1) :
          ~SuccessiveWithin(sol.energies, j, sol.e_convergence)
    /\ (Finished /\ sol.converged) =>
          /\ Len(sol.energies) >= 2
          /\ SuccessiveWithin(sol.energies, Len(sol.energies), sol.e_convergence)
    /\ (Finished /\ ~sol.converged) =>
          /\ Len(sol.energies) = sol.max_cc_iter
          /\ \A j \in 2..Len(sol.energies) :
                ~SuccessiveWithin(sol.energies, j, sol.e_convergence)

(* C10: when run_ic_mrcc has made max_cc_iter iterations without meeting the
   energy criterion, it has returned without an exception, it has told the
   caller of the non-convergence (by what it returns or by what it prints),
   and the last energy and amplitudes are there. *)
C10_NonConvergenceReported ==
    (Finished /\ ~sol.converged) =>
        /\ sol.err = "none"
        /\ sol.has_e /\ sol.t >= 0
        /\ sol.ret # "None" \/ \E k \in 1..Len(sol.out) : sol.out[k] = "not converged"

ReferenceReplaced == gen.psi > 0
Smallest(w, k) == \A j \in 1..Len(w) : RealLe(w[k], w[j])

(* C24: in every outer iteration the new reference is the column of vr whose
   eigenvalue has the smallest real part, the first such index on ties, and
   the reference is keyed by exactly the determinants self.dets, before the
   run and after every replacement. *)
C24_LowestEigenvectorSelected ==
    /\ (gpc = "done" /\ spc # "ready") => sol.psi_keys = [k \in 1..gen.ndets |-> k]
    /\ ReferenceReplaced =>
          /\ Len(sol.w) = gen.ndets
          /\ sol.psi_col \in 1..gen.ndets
          /\ Smallest(sol.w, sol.psi_col)
          /\ \A j \in 1..(sol.psi_col - 1) : ~Smallest(sol.w, j)

C24_Witness ==
    /\ gen.psi = 2
    /\ sol.psi_col = 2
    /\ ~IsDiagonal(sol.Heff)
    /\ ~Smallest(sol.w, 1)

(* C28: when run_ic_mrcc has declared convergence, the energy self.e is the
   energy of the amplitudes and of the reference it leaves: the amplitudes
   were not updated and self.psi was not replaced after the last evaluation
   of the energy. *)
C28_EnergyOfFinalState ==
    (Finished /\ sol.converged) => (sol.e_t = sol.t /\ sol.e_psi = gen.psi)

(* C30: the reference is replaced only by an eigenvector of an effective
   Hamiltonian that one of the implemented strategies has filled, under one
   of the three orthogonalization schemes; with any other value of algo
   (commutator off) or of ortho the run has ended in an error before. *)
C30_UnknownModeFailsBeforeReference ==
    ReferenceReplaced => (sol.strategy # "none" /\ gen.ortho \in Orthos)

(***************************************************************************)
(* run_ic_mrcc over the numerical layer: the orthogonalizations and        *)
(* update_amps_orthogonal are computed, the backend supplies the           *)
(* Hamiltonian, the residuals and energies at non-zero amplitudes, and the *)
(* vectors of every new basis.  self.t is the list with reference 1.       *)
(***************************************************************************)
MaxRunIter == 2

Hamiltonians ==
    { Mat(2, 2, LAMBDA i, j : IF i = j THEN RInt(i - 6) ELSE Zero),
      Mat(2, 2, LAMBDA i, j : IF i = j THEN RInt(5 - 2 * i) ELSE One) }

RunCases ==
    { NumCase("direct", << <<Zero, RInt(2)>> >>, <<1, 0>>, Zero),
      NumCase("direct", << <<Zero, RInt(-4)>>, <<Zero, RInt(3)>> >>, <<1, 1>>, Zero),
      NumCase("direct", << <<One, Zero>>, <<Zero, RInt(2)>> >>, <<1, 1>>, Zero),
      NumCase("projective", << <<Zero, RInt(-4)>>, <<Zero, RInt(3)>> >>, <<1, 1>>, Zero),
      NumCase("projective", << <<One, Zero>>, <<Zero, RInt(2)>> >>, <<1, 1>>, Zero),
      NumCase("GNO", << <<Zero, Zero>>, <<Zero, One>> >>, <<1, 1>>, R(1, 2)),
      NumCase("GNO", << <<Zero, Zero>>, <<Zero, One>> >>, <<1, 1>>, Zero),
      NumCase("GNO", << <<One, Zero>>, <<Zero, RInt(2)>> >>, <<1, 1>>, Zero) }

(* The arguments const_num_op (of the constructor) and num_op (of run_ic_mrcc). *)
RetainChoices(n) ==
    { [const_num_op |-> FALSE, num_op |-> 0] } \cup
    { [const_num_op |-> TRUE, num_op |-> k] : k \in 0..n }

(* cc_residual_equations and cc_residual_equations_truncated at zero
   amplitudes: exp(0)|ref> = |ref>, R = H|ref>, residual[k] = <op_k ref|R>,
   energy = <ref|R>. *)
cc_residual_equations_T0(ham, ic_basis_full) ==
    [residual |-> [k \in 1..(Len(ic_basis_full) - 1) |->
                      overlap(ic_basis_full[k + 1], MVec(ham, ic_basis_full[1]))],
     e |-> overlap(ic_basis_full[1], MVec(ham, ic_basis_full[1]))]

(* What the residual equations can return for the operator's coefficients. *)
cc_residual_equations(ham, ic_basis_full, coeffs_) ==
    IF coeffs_ = VZeros(Len(coeffs_))
    THEN { cc_residual_equations_T0(ham, ic_basis_full) }
    ELSE { [residual |-> r, e |-> e] : r \in Residuals(Len(coeffs_)), e \in Energies }

RunLocals(max_cc_iter) ==
    [max_cc_iter |-> max_cc_iter, e_convergence |-> One, iter |-> 0, old_e |-> Zero,
     e |-> Zero, residual |-> <<>>, radius |-> Zero, ic_basis |-> <<>>,
     where |-> "none", n_update |-> 0, n_raise |-> 0, halved |-> FALSE,
     converged |-> FALSE, err |-> "none", ret |-> "running"]

RunInit ==
    /\ npc = "run"
    /\ ncfg \in { [case |-> c, thres |-> th, denominators |-> d, eta |-> eta, ham |-> h,
                   retain |-> rt] :
                    c \in RunCases, th \in Thresholds \cup {Zero},
                    d \in UNION { Denominators(n) : n \in 1..2 }, eta \in Etas,
                    h \in Hamiltonians, rt \in RetainChoices(2) }
    /\ Len(ncfg.denominators) = Len(ncfg.case.ic_basis) - 1
    /\ ncfg.retain.num_op <= Len(ncfg.denominators)
    /\ ncfg.retain.const_num_op => ncfg.case.ortho = "direct"
    /\ orth = [err |-> "unset"]
    /\ heap = <<>>
    /\ diis = DIIS_None
    /\ coeffs = VZeros(Len(ncfg.denominators))
    /\ last = [call |-> "none"]
    /\ ncalls = 0
    /\ GenOff
    /\ spc = "ready"
    /\ sol \in { RunLocals(m) : m \in 1..MaxRunIter }

(* Lines 879-884: the dispatch on self.ortho before the loop. *)
orthogonalization_initial(c, thres, const_num_op, num_op) ==
    IF c.ortho = "direct" THEN orthogonalization(c.ic_basis, thres, const_num_op, num_op)
    ELSE IF c.ortho = "projective" THEN orthogonalization_projective(c.ic_basis, c.num_op, thres)
    ELSE orthogonalization_GNO(c.ic_basis, c.Y, thres)

(* Lines 968-973: the dispatch on self.ortho inside the loop. *)
orthogonalization_loop(c, thres) ==
    IF c.ortho = "direct" THEN orthogonalization(c.ic_basis, thres, FALSE, 0)
    ELSE IF c.ortho = "projective" THEN orthogonalization_projective(c.ic_basis, c.num_op, thres)
    ELSE orthogonalization_GNO(c.ic_basis, c.Y, thres)

(* Line 983: the orthogonalization of the converged basis. *)
orthogonalization_final(c, thres) == orthogonalization(c.ic_basis, thres, FALSE, 0)

RunRaise(l, err) == [l EXCEPT !.err = err, !.ret = "raised", !.n_raise = @ + 1]

(* Lines 858-886: t = 0, the coefficients set, the DIIS object, old_e = 0.0,
   the first orthogonalization, radius = 0.01. *)
RunStart ==
    /\ spc = "ready"
    /\ heap' = << VZeros(Len(coeffs)) >>
    /\ coeffs' = VZeros(Len(coeffs))
    /\ diis' = DIIS_init(1, 3)
    /\ orth' = orthogonalization_initial(ncfg.case, ncfg.thres, ncfg.retain.const_num_op,
                                         ncfg.retain.num_op)
    /\ IF orth'.err = "none"
       THEN /\ sol' = [sol EXCEPT !.old_e = Zero, !.radius = R(1, 100), !.where = "initial",
                                  !.ic_basis = ncfg.case.ic_basis]
            /\ spc' = "residual"
       ELSE /\ sol' = [RunRaise(sol, orth'.err) EXCEPT !.where = "initial",
                                                       !.ic_basis = ncfg.case.ic_basis]
            /\ spc' = "error"
    /\ UNCHANGED <<npc, ncfg, last, ncalls, genVars>>

(* Lines 890-896: the residual and the energy, then the radius. *)
RunResidual ==
    /\ spc = "residual"
    /\ \E r \in cc_residual_equations(ncfg.ham, sol.ic_basis, coeffs) :
         /\ StepRepresentable(r.residual)
         /\ sol' = [sol EXCEPT !.residual = r.residual, !.e = r.e,
                               !.radius = radius_next(r.e, sol.old_e, @),
                               !.halved = (radius_next(r.e, sol.old_e, sol.radius) # sol.radius)]
    /\ spc' = "update"
    /\ UNCHANGED <<numVars, genVars>>

RunRecord(res) ==
    /\ heap' = res.heap
    /\ diis' = res.diis
    /\ coeffs' = res.coeffs
    /\ last' = [call |-> "update_amps_orthogonal", err |-> res.err,
                residual |-> sol.residual, update_radius |-> sol.radius,
                dK_short |-> res.dK_short, dK |-> res.dK, ret |-> res.used,
                t_before |-> heap[1], coeffs_before |-> coeffs, diis_before |-> diis]
    /\ sol' = IF res.err = "none" THEN [sol EXCEPT !.n_update = @ + 1]
              ELSE [RunRaise(sol, res.err) EXCEPT !.n_update = @ + 1]
    /\ spc' = IF res.err = "none" THEN "heff" ELSE "error"

(* Line 899: update_amps_orthogonal; what it raises leaves run_ic_mrcc. *)
RunUpdateAmps ==
    /\ spc = "update"
    /\ RunRecord(update_amps_orthogonal(sol.residual, ncfg.denominators, coeffs, 1, heap,
                                        orth.P, orth.S, orth.X, orth.numnonred,
                                        sol.radius, ncfg.eta, diis))
    /\ ncalls' = ncalls + 1
    /\ UNCHANGED <<npc, ncfg, orth, genVars>>

(* Lines 902-973: Heff and its lowest eigenvector give the new psi; the new
   basis is every operator applied to it; the orthogonalization of the new
   basis. *)
RunReference ==
    /\ spc = "heff"
    /\ \E c \in RunCases :
         /\ c.ortho = ncfg.case.ortho
         /\ c.num_op = ncfg.case.num_op
         /\ c.Y = ncfg.case.Y
         /\ orth' = orthogonalization_loop(c, ncfg.thres)
         /\ IF orth'.err = "none"
            THEN sol' = [sol EXCEPT !.ic_basis = c.ic_basis, !.where = "loop"] /\ spc' = "check"
            ELSE /\ sol' = [RunRaise(sol, orth'.err) EXCEPT !.ic_basis = c.ic_basis,
                                                            !.where = "loop"]
                 /\ spc' = "error"
    /\ last' = [call |-> "orthogonalization"]
    /\ UNCHANGED <<npc, ncfg, heap, diis, coeffs, ncalls, genVars>>

(* Lines 976-996: the convergence test with its last orthogonalization and
   break, or old_e = self.e and the next iteration. *)
RunCheck ==
    /\ spc = "check"
    /\ IF energy_converged(sol.e, sol.old_e, sol.e_convergence)
       THEN /\ orth' = orthogonalization_final([ic_basis |-> sol.ic_basis], ncfg.thres)
            /\ last' = [call |-> "orthogonalization"]
            /\ sol' = [sol EXCEPT !.converged = TRUE, !.where = "final", !.ret = "None"]
            /\ spc' = "done"
       ELSE /\ UNCHANGED <<orth, last>>
            /\ sol' = [sol EXCEPT !.old_e = sol.e, !.iter = @ + 1,
                                  !.ret = IF sol.iter + 1 < sol.max_cc_iter THEN "running"
                                          ELSE "None"]
            /\ spc' = IF sol.iter + 1 < sol.max_cc_iter THEN "residual" ELSE "done"
    /\ UNCHANGED <<npc, ncfg, heap, diis, coeffs, ncalls, genVars>>

RunNext == RunStart \/ RunResidual \/ RunUpdateAmps \/ RunReference \/ RunCheck

SpecRun == RunInit /\ [][RunNext]_vars

(***************************************************************************)
(* Properties of run_ic_mrcc over the numerical layer.                     *)
(***************************************************************************)
RunMn == update_amps_Mn(ncfg.denominators, orth.S, orth.X, orth.numnonred, ncfg.eta)
SolveFails == spc = "update" /\ Singular(RunMn)

(* C11: a call of update_amps_orthogonal made by run_ic_mrcc with a singular
   non-redundant block Mn changes neither self.t nor the operator's
   coefficients (nor the DIIS history), and run_ic_mrcc ends there with the
   LinAlgError raised: the update is not tried again and no step of the run
   follows the raise. *)
C11_SolveFailurePropagates ==
    [][ /\ spc # "error"
        /\ SolveFails =>
              /\ heap' = heap /\ coeffs' = coeffs /\ diis' = diis
              /\ spc' = "error"
              /\ sol'.err = "LinAlgError" /\ sol'.ret = "raised"
              /\ sol'.n_update = sol.n_update + 1 /\ sol'.iter = sol.iter ]_vars

C11_Witness ==
    /\ spc = "error"
    /\ last.call = "update_amps_orthogonal"
    /\ last.err = "LinAlgError" /\ last.dK_short = <<>>
    /\ sol.iter = 1
    /\ last.t_before # VZeros(Len(last.t_before))
    /\ heap[1] = last.t_before /\ coeffs = last.coeffs_before

FirstUpdateDone == sol.iter = 0 /\ sol.n_update = 1
ZeroResidualSystem == IsDiagonal(ncfg.ham) /\ sol.residual = VZeros(Len(sol.residual))

(* C14: when the Hamiltonian is diagonal and the residual at zero amplitudes
   is zero, the first call of update_amps_orthogonal in run_ic_mrcc leaves
   every amplitude of self.t and every coefficient of the operator at zero,
   and the energy of that iteration is the Hamiltonian's diagonal element of
   the reference determinant. *)
C14_ZeroResidualFixedPoint ==
    (FirstUpdateDone /\ ZeroResidualSystem) =>
        /\ heap[1] = VZeros(Len(heap[1]))
        /\ coeffs = VZeros(Len(coeffs))
        /\ sol.e = ncfg.ham.a[1][1]

C14_Witness ==
    /\ FirstUpdateDone /\ ZeroResidualSystem
    /\ spc = "heff"
    /\ last.err = "none"
    /\ ncfg.thres = Zero
    /\ Len(sol.residual) = 2 /\ Len(last.dK_short) >= 1
    /\ orth.numnonred >= 1

(* P @ v; a nan in v makes every entry nan. *)
Projected(P, v) == IF v = VNaN(Len(v)) THEN v ELSE MVec(P, v)
DiisGiven == last.diis_before.obj = "DIIS"
DiisRecording == DiisGiven /\ last.diis_before.diis_start # -1

(* C18: in every call of update_amps_orthogonal that took a step, t was moved
   by X @ dK first; the DIIS object, when one was given, was then updated with
   the moved t and the t of before (its history holds t and the difference of
   the two); and the coefficients were written last, as P applied to the
   vector DIIS returned, or to the moved t without DIIS: a call that raised
   in DIIS has moved t and has written no coefficient. *)
C18_ProjectAfterDiis ==
    Stepped =>
        /\ heap[1] = VSub(last.t_before, MVec(orth.X, last.dK))
        /\ DiisRecording =>
              /\ diis.t_diis = Append(last.diis_before.t_diis, 1)
              /\ diis.e_diis = Append(last.diis_before.e_diis, VSub(heap[1], last.t_before))
        /\ ~DiisRecording => diis = last.diis_before /\ last.ret = 1
        /\ IF last.err = "none"
           THEN coeffs = Projected(orth.P, heap[last.ret])
           ELSE coeffs = last.coeffs_before

C18_Witness ==
    /\ Stepped
    /\ last.err = "none"
    /\ DiisRecording
    /\ heap[1] # last.t_before
    /\ coeffs # heap[last.ret]
    /\ coeffs # VZeros(Len(coeffs))

(* C20: the DIIS object of run_ic_mrcc holds one amplitude vector more than
   error vectors, a call adds one of each, and every amplitude vector of the
   history has the value it had when it was recorded: the first one the zero
   amplitudes the constructor was given, the one recorded by the call before
   the last the amplitudes that the last call started from. *)
C20_HistoryKeepsValues ==
    diis.obj = "DIIS" =>
        /\ Len(diis.t_diis) = Len(diis.e_diis) + 1
        /\ Stepped => Len(diis.t_diis) = Len(last.diis_before.t_diis) + 1
        /\ heap[diis.t_diis[1]] = VZeros(Len(coeffs))
        /\ (Stepped /\ Len(diis.t_diis) >= 3) =>
              heap[diis.t_diis[Len(diis.t_diis) - 1]] = last.t_before

(* The columns of X that hold a vector (X is taken where it is finite). *)
RetainedColumns(X) ==
    Cardinality({ j \in 1..X.c : \E k \in 1..X.r : X.a[k][j] # Zero })

(* C12: with const_num_op set, every orthogonalization run_ic_mrcc has made
   (the one before the loop, the one after each new reference, the one of the
   converged basis) returned, retained exactly num_op columns in X, for every
   num_op from 0 to the number of operators whatever the threshold, and gave
   numnonred = num_op. *)
C12_FixedCountEverywhere ==
    (ncfg.retain.const_num_op /\ sol.where # "none") =>
        /\ orth.err = "none"
        /\ orth.numnonred = ncfg.retain.num_op
        /\ orth.finite => RetainedColumns(orth.X) = ncfg.retain.num_op

(***************************************************************************)
(* The end of run_eom_ee_mrcc: the loop over the roots that sorts them by  *)
(* spin.  The value abs(ci.T @ s2 @ ci) / norm[i] of each root comes from  *)
(* the backend.                                                            *)
(***************************************************************************)
MaxRoots == 2

S2Values ==
    { Zero, R(1, 2), One, RInt(2), RInt(3), R(7, 2), RInt(4), RInt(6), RInt(7), RInt(8) }

(* Lines 1254-1265: the if / elif chain on one root's value. *)
spin_class(v) ==
    IF RLt(v, One) THEN "singlet"
    ELSE IF RLt(One, v) /\ RLt(v, RInt(3)) THEN "triplet"
    ELSE IF RLt(RInt(4), v) /\ RLt(v, RInt(7)) THEN "quintet"
    ELSE "other"

Count(classes, c) == Cardinality({ k \in 1..Len(classes) : classes[k] = c })

EomInit ==
    /\ spc = "eom"
    /\ sol \in { [s2 |-> vs, i |-> -1, n_sin |-> 0, n_tri |-> 0, n_quintet |-> 0,
                  classes |-> <<>>] :
                   vs \in UNION { [1..n -> S2Values] : n \in 1..MaxRoots } }
    /\ NumOff
    /\ GenOff

(* Lines 1226-1228: the counters. *)
EomCounters ==
    /\ spc = "eom"
    /\ sol.i = -1
    /\ sol' = [sol EXCEPT !.i = 0, !.n_sin = 0, !.n_tri = 0, !.n_quintet = 0]
    /\ UNCHANGED <<spc, numVars, genVars>>

(* Lines 1229-1265: one turn of the loop over the roots. *)
EomClassify ==
    /\ spc = "eom"
    /\ sol.i >= 0 /\ sol.i < Len(sol.s2)
    /\ sol' = [sol EXCEPT
                 !.i = @ + 1,
                 !.n_sin = IF spin_class(sol.s2[sol.i + 1]) = "singlet" THEN @ + 1 ELSE @,
                 !.n_tri = IF spin_class(sol.s2[sol.i + 1]) = "triplet" THEN @ + 1 ELSE @,
                 !.n_quintet = IF spin_class(sol.s2[sol.i + 1]) = "quintet" THEN @ + 1 ELSE @,
                 !.classes = Append(@, spin_class(sol.s2[sol.i + 1]))]
    /\ UNCHANGED <<spc, numVars, genVars>>

EomNext == EomCounters \/ EomClassify

SpecEOM == EomInit /\ [][EomNext]_vars

(* The bands as the specification names them, their ends included. *)
SpinBand(v) ==
    IF RLt(v, One) THEN "singlet"
    ELSE IF RLe(One, v) /\ RLe(v, RInt(3)) THEN "triplet"
    ELSE IF RLe(RInt(4), v) /\ RLe(v, RInt(7)) THEN "quintet"
    ELSE "other"

(* C13: every root sorted so far is in exactly one class, the class of the
   band its value lies in (singlet below 1.0, triplet from 1.0 to 3.0, quintet
   from 4.0 to 7.0, none otherwise, the values 1.0, 3.0, 4.0 and 7.0 in the band
   they end), and the singlet, triplet, quintet and unclassified counts add up
   to the number of roots sorted. *)
C13_SpinBands ==
    sol.i >= 0 =>
        /\ \A k \in 1..Len(sol.classes) : sol.classes[k] = SpinBand(sol.s2[k])
        /\ sol.n_sin = Count(sol.classes, "singlet")
        /\ sol.n_tri = Count(sol.classes, "triplet")
        /\ sol.n_quintet = Count(sol.classes, "quintet")
        /\ sol.n_sin + sol.n_tri + sol.n_quintet + Count(sol.classes, "other") = sol.i

(***************************************************************************)
(* The trust radius over a long run of run_ic_mrcc: the loop with the      *)
(* energies from the backend and the calls it makes taken by their         *)
(* outcome.  passed is the update_radius of the last call of               *)
(* update_amps_orthogonal.                                                 *)
(***************************************************************************)
MaxLongIter == 19

LongEnergies == { RInt(k) : k \in 0..MaxLongIter }

LongLocals ==
    [max_cc_iter |-> MaxLongIter, e_convergence |-> R(1, 2), iter |-> 0, old_e |-> Zero,
     e |-> Zero, radius |-> Zero, passed |-> Zero, n_update |-> 0, halvings |-> 0,
     converged |-> FALSE, err |-> "none"]

LongInit ==
    /\ spc = "long"
    /\ sol = LongLocals
    /\ NumOff
    /\ GenOff

(* Lines 858-886: old_e = 0.0, the first orthogonalization, radius = 0.01. *)
LongStart ==
    /\ spc = "long"
    /\ sol' = [sol EXCEPT !.old_e = Zero, !.radius = R(1, 100)]
    /\ spc' = "residual"
    /\ UNCHANGED <<numVars, genVars>>

(* Lines 890-896: the energy of this iteration, then the radius. *)
LongResidual ==
    /\ spc = "residual"
    /\ \E e \in LongEnergies :
         sol' = [sol EXCEPT !.e = e, !.radius = radius_next(e, sol.old_e, @),
                            !.halvings = IF radius_next(e, sol.old_e, sol.radius) # sol.radius
                                         THEN @ + 1 ELSE @]
    /\ spc' = "update"
    /\ UNCHANGED <<numVars, genVars>>

(* Line 899: the call update_amps_orthogonal(..., update_radius=radius, ...);
   it returns, or np.linalg.solve raises. *)
LongUpdateAmps ==
    /\ spc = "update"
    /\ \E err \in {"none", "LinAlgError"} :
         /\ sol' = [sol EXCEPT !.passed = sol.radius, !.n_update = @ + 1, !.err = err]
         /\ spc' = IF err = "none" THEN "check" ELSE "error"
    /\ UNCHANGED <<numVars, genVars>>

(* Lines 902-996: Heff, the new reference and basis, the convergence test,
   old_e = self.e. *)
LongCheck ==
    /\ spc = "check"
    /\ IF energy_converged(sol.e, sol.old_e, sol.e_convergence)
       THEN sol' = [sol EXCEPT !.converged = TRUE] /\ spc' = "done"
       ELSE /\ sol' = [sol EXCEPT !.old_e = sol.e, !.iter = @ + 1]
            /\ spc' = IF sol.iter + 1 < sol.max_cc_iter THEN "residual" ELSE "done"
    /\ UNCHANGED <<numVars, genVars>>

LongNext == LongStart \/ LongResidual \/ LongUpdateAmps \/ LongCheck

SpecRadius == LongInit /\ [][LongNext]_vars

(* C15: the radius is 0.01 when the loop is entered; a step never raises it;
   it changes only in the residual step of an iteration that has an iteration
   before it and an energy above that iteration's energy, and then to half
   its value. *)
C15_RadiusHalvedOnIncrease ==
    [][ /\ spc = "long" => sol'.radius = R(1, 100)
        /\ spc # "long" =>
              /\ sol'.radius = sol.radius \/ sol'.radius = RDiv(sol.radius, RInt(2))
              /\ sol'.radius # sol.radius =>
                    /\ spc = "residual"
                    /\ sol.iter > 0
                    /\ RLt(sol.old_e, sol'.e) ]_vars

(* C16: the update_radius of every call of update_amps_orthogonal made by
   run_ic_mrcc is at least 1e-7. *)
C16_RadiusAboveFloor ==
    sol.n_update > 0 => ~RLtWide(sol.passed, R(1, 10000000))

(***************************************************************************)
(* run_eom_ee_mrcc on an object that initialize_op has filled and on which *)
(* run_ic_mrcc has converged: the basis it assembles, the lists of the     *)
(* object it rebinds, the names it binds on each path, the operator the    *)
(* effective Hamiltonian is built with, and the index ranges of the        *)
(* weights.  The matrices are followed by their shape and by what they     *)
(* were built from; the number of roots is what the metric's eigenvalues   *)
(* leave.                                                                  *)
(***************************************************************************)
InternalVector(n, k, psi) == StateVector(IF n = 1 THEN "int1" ELSE "int2", k, psi)
DetVector(i) == StateVector("det", i, 0)

(* for nb in range(max_nb + 1), from nb on, the orbitals all active *)
RECURSIVE InternalLoopBeta(_, _, _, _)
InternalLoopBeta(act, n, nb, max_nb) ==
    IF nb > max_nb THEN <<>>
    ELSE LoopSplit(act, act, n, nb) \o InternalLoopBeta(act, n, nb + 1, max_nb)

(* for n in range(1, internal_max_exc + 1), max_nb = min(n, nelecas[1]) *)
RECURSIVE InternalLoopRank(_, _, _, _)
InternalLoopRank(act, internal_max_exc, nelecas_b, n) ==
    IF n > internal_max_exc THEN <<>>
    ELSE InternalLoopBeta(act, n, 0, Min2(n, nelecas_b))
            \o InternalLoopRank(act, internal_max_exc, nelecas_b, n + 1)

(* The internal excitations of rank n that pass the symmetry test. *)
InternalOfRank(g, internal_max_exc, nelecas_b, n) ==
    SelectSeq(InternalLoopRank(g.act, internal_max_exc, nelecas_b, 1),
              LAMBDA c : c.n = n /\ SymmetryAllowed(g, c))

(* Lines 1000-1005 and 1096-1109: ic_basis = ic_basis_single + ic_basis_double,
   op_idx = op_idx_single + op_idx_double, flip = flip_single + flip_double. *)
eom_internal_fill(g, n1, n2, s, d) ==
    [g EXCEPT
        !.ic_basis = <<Reference(g.psi)>>
                       \o [x \in 1..n1 |-> BasisVector(x, g.psi)]
                       \o [k \in 1..Len(s) |-> InternalVector(1, k, g.psi)]
                       \o [y \in 1..n2 |-> BasisVector(n1 + y, g.psi)]
                       \o [k \in 1..Len(d) |-> InternalVector(2, k, g.psi)],
        !.op_idx = SubSeq(g.op_idx, 1, n1)
                       \o [k \in 1..Len(s) |-> LegIndex(OperatorLegs(s[k]))]
                       \o SubSeq(g.op_idx, n1 + 1, Len(g.op_idx))
                       \o [k \in 1..Len(d) |-> LegIndex(OperatorLegs(d[k]))],
        !.flip = SubSeq(g.flip, 1, n1) \o [k \in 1..Len(s) |-> One]
                       \o SubSeq(g.flip, n1 + 1, Len(g.flip))
                       \o [k \in 1..Len(d) |-> One]]

eom_internal(g, internal_max_exc, nelecas_b) ==
    eom_internal_fill(g, g.num_op[1], g.num_op[2],
                      InternalOfRank(g, internal_max_exc, nelecas_b, 1),
                      InternalOfRank(g, internal_max_exc, nelecas_b, 2))

(* decontract_active: a StateVector of every determinant is appended *)
eom_decontract(g) == [g EXCEPT !.ic_basis = @ \o [i \in 1..g.ndets |-> DetVector(i)]]

weight_ranges_external_first(num_op, n_single_int, len_ci) ==
    [c0_per |-> {0},
     single_per |-> 1..num_op[1],
     double_per |-> (num_op[1] + 1)..(num_op[1] + num_op[2]),
     single_internal |-> (num_op[1] + num_op[2] + 1)..(num_op[1] + num_op[2] + n_single_int),
     double_internal |-> (num_op[1] + num_op[2] + n_single_int + 1)..(len_ci - 1),
     total_per |-> 0..(len_ci - 1)]

(* Lines 1237-1247: the indices of ci (from 0) each sum runs over *)
weight_ranges(num_op, n_single_int, len_ci) ==
    [c0_per |-> {0},
     single_per |-> 1..num_op[1],
     single_internal |-> (num_op[1] + 1)..(num_op[1] + n_single_int),
     double_per |-> (num_op[1] + n_single_int + 1)..(num_op[1] + n_single_int + num_op[2]),
     double_internal |-> (num_op[1] + n_single_int + 1 + num_op[2])..(len_ci - 1),
     total_per |-> 0..(len_ci - 1)]

NoRanges == weight_ranges(<<0, 0>>, 0, 0)

(* self.Hbar_ic as a get_hbar method leaves it: the operator it exponentiates
   (always self.op_A, lines 1288, 1333, 1345) and the coefficients that
   operator holds. *)
Hbar(builder, op, coeffs_, n) ==
    [bound |-> TRUE, builder |-> builder, op |-> op, coeffs |-> coeffs_, n |-> n]
HbarUnbound == [bound |-> FALSE, builder |-> "none", op |-> "none", coeffs |-> "none", n |-> 0]

Unbound == -1

(* The object run_ic_mrcc leaves when it has converged. *)
Converged(g) ==
    [g EXCEPT !.psi = 1,
              !.ic_basis = IF g.cas_int
                           THEN cas_internal(ic_basis_new(1, g.oprator_list), g.ndets, 1, 1)
                           ELSE ic_basis_new(1, g.oprator_list)]

EeLayouts == { Layout(<<0>>, <<1>>, <<>>), Layout(<<0>>, <<1>>, <<2>>) }

EeObjects ==
    { Converged(initialize_op(
          EOM_MRCC_init(lay, [i \in 0..(NOrb(lay) - 1) |-> 0], 0, max_exc, "direct",
                        add_int, {}, Flags(commutator, cas_int, 2, MaxDets)))) :
        lay \in EeLayouts, max_exc \in {1, 2}, add_int \in BOOLEAN,
        cas_int \in BOOLEAN, commutator \in BOOLEAN }

(* The arguments of run_eom_ee_mrcc, self.unitary, the coefficients op_A and
   op_T hold after run_ic_mrcc (add_term gave each term 1.0; run_ic_mrcc set
   those of the operator self.unitary selects to self.t), the four lists as
   initialize_op left them, and the locals. *)
EeLocals(g, unitary, decontract_active, algo, nelecas_b) ==
    [unitary |-> unitary, decontract_active |-> decontract_active, algo |-> algo,
     nelecas_b |-> nelecas_b, internal_max_exc |-> 2,
     op_A_coeffs |-> IF unitary THEN "t" ELSE "ones",
     op_T_coeffs |-> IF unitary THEN "ones" ELSE "t",
     created |-> [op_idx |-> g.op_idx, denominators |-> g.denominators, flip |-> g.flip,
                  oprator_list |-> g.oprator_list, ic_basis |-> Len(g.oprator_list) + 1],
     n_single_int |-> Unbound, n_double_int |-> Unbound, GNO_P |-> FALSE,
     Hbar_ic |-> HbarUnbound, transformed |-> FALSE, nroots |-> 0, i |-> 0,
     ranges |-> NoRanges, reported |-> 0, err |-> "none", ret |-> "running"]

EeInit ==
    /\ gpc = "done"
    /\ gen \in EeObjects
    /\ spc = "ee_basis"
    /\ \E unitary \in BOOLEAN, decontract_active \in BOOLEAN,
          algo \in {"naive", "oprod"}, nelecas_b \in {0, 1} :
         sol = EeLocals(gen, unitary, decontract_active, algo, nelecas_b)
    /\ NumOff

EeRaise(err) == [sol EXCEPT !.err = err, !.ret = "raised"]

(* Lines 1000-1146.  self.num_op has max_exc entries: num_op[1] of line 1004
   is an IndexError when max_exc is 1. *)
EeBasis ==
    /\ spc = "ee_basis"
    /\ IF gen.max_exc < 2
       THEN /\ sol' = EeRaise("IndexError")
            /\ spc' = "ee_error"
            /\ UNCHANGED gen
       ELSE IF gen.add_int \/ gen.cas_int
       THEN /\ spc' = "ee_hbar"
            /\ UNCHANGED <<gen, sol>>
       ELSE IF sol.decontract_active
       THEN /\ gen' = eom_decontract(gen)
            /\ spc' = "ee_hbar"
            /\ UNCHANGED sol
       ELSE /\ gen' = eom_internal(gen, sol.internal_max_exc, sol.nelecas_b)
            /\ sol' = [sol EXCEPT
                         !.n_single_int = Len(InternalOfRank(gen, sol.internal_max_exc,
                                                             sol.nelecas_b, 1)),
                         !.n_double_int = Len(InternalOfRank(gen, sol.internal_max_exc,
                                                             sol.nelecas_b, 2)),
                         !.GNO_P = TRUE]
            /\ spc' = "ee_hbar"
    /\ UNCHANGED <<numVars, gpc>>

(* Lines 1148-1156 *)
EeHbar ==
    /\ spc = "ee_hbar"
    /\ sol' = [sol EXCEPT !.Hbar_ic =
                  Hbar(IF gen.commutator THEN "commutator" ELSE sol.algo, "op_A",
                       sol.op_A_coeffs, Len(gen.ic_basis))]
    /\ spc' = "ee_metric"
    /\ UNCHANGED <<numVars, genVars>>

(* Lines 1159-1170: S_full, and the transformation by self.GNO_P, an attribute
   that only the internal branch of lines 1015-1144 has set *)
EeMetric ==
    /\ spc = "ee_metric"
    /\ IF ~gen.add_int /\ ~gen.cas_int
       THEN IF sol.GNO_P
            THEN sol' = [sol EXCEPT !.transformed = TRUE] /\ spc' = "ee_select"
            ELSE sol' = EeRaise("AttributeError") /\ spc' = "ee_error"
       ELSE spc' = "ee_select" /\ UNCHANGED sol
    /\ UNCHANGED <<numVars, genVars>>

(* Lines 1189-1224: the vectors kept, H_ic_tilde and its eigenvectors: one
   root for each vector kept *)
EeSelect ==
    /\ spc = "ee_select"
    /\ \E nroots \in 0..MaxRoots :
         /\ nroots <= Len(gen.ic_basis)
         /\ sol' = [sol EXCEPT !.nroots = nroots]
         /\ spc' = IF nroots = 0 THEN "ee_done" ELSE "ee_roots"
    /\ UNCHANGED <<numVars, genVars>>

(* Lines 1229-1265 for root i: n_single_int is a local that only the internal
   branch has bound; the line printed holds the class and the five weights *)
EeRoot ==
    /\ spc = "ee_roots"
    /\ IF sol.n_single_int = Unbound
       THEN sol' = EeRaise("NameError") /\ spc' = "ee_error"
       ELSE /\ sol' = [sol EXCEPT
                         !.ranges = weight_ranges(gen.num_op, sol.n_single_int,
                                                  Len(gen.ic_basis)),
                         !.reported = @ + 1, !.i = @ + 1,
                         !.ret = IF sol.i + 1 = sol.nroots THEN "None" ELSE "running"]
            /\ spc' = IF sol.i + 1 = sol.nroots THEN "ee_done" ELSE "ee_roots"
    /\ UNCHANGED <<numVars, genVars>>

EeNext == EeBasis \/ EeHbar \/ EeMetric \/ EeSelect \/ EeRoot

SpecExcited == EeInit /\ [][EeNext]_vars

EeEnded == spc \in {"ee_done", "ee_error"}
SumNumOp == RSum([n \in 1..Len(gen.num_op) |-> RInt(gen.num_op[n])])[1]

(* C23: the lists op_idx, denominators, flip and oprator_list are as
   initialize_op created them, all of length sum(num_op) = len(initial
   ic_basis) - 1, at every point of run_eom_ee_mrcc. *)
C23_MetadataReadOnly ==
    /\ gen.op_idx = sol.created.op_idx
    /\ gen.denominators = sol.created.denominators
    /\ gen.flip = sol.created.flip
    /\ gen.oprator_list = sol.created.oprator_list
    /\ Len(gen.op_idx) = SumNumOp /\ Len(gen.denominators) = SumNumOp
    /\ Len(gen.flip) = SumNumOp /\ Len(gen.oprator_list) = SumNumOp
    /\ SumNumOp = sol.created.ic_basis - 1

(* C26: on an object with singles and doubles, run_eom_ee_mrcc ends without
   an error, having reported every root, for every value of add_int, cas_int
   and decontract_active. *)
C26_EveryFlagConfigurationCompletes ==
    (EeEnded /\ gen.max_exc >= 2) => (sol.err = "none" /\ sol.reported = sol.nroots)

BasisClass(g, v) ==
    IF v.kind = "psi" THEN "c0_per"
    ELSE IF v.kind = "op" THEN (IF v.k <= g.num_op[1] THEN "single_per" ELSE "double_per")
    ELSE IF v.kind = "int1" THEN "single_internal"
    ELSE IF v.kind = "int2" THEN "double_internal"
    ELSE v.kind
WeightNames == {"c0_per", "single_per", "single_internal", "double_per", "double_internal"}

(* C27: for every root reported, the five index ranges are pairwise disjoint,
   cover every index of the coefficient vector, and each index lies in the
   range of the kind of basis vector at that position, so that the five
   weights (each range's share of total_per) add up to the whole. *)
C27_WeightRangesPartition ==
    sol.reported > 0 =>
        /\ \A a, b \in WeightNames : a # b => sol.ranges[a] \cap sol.ranges[b] = {}
        /\ UNION { sol.ranges[a] : a \in WeightNames } = 0..(Len(gen.ic_basis) - 1)
        /\ sol.ranges.total_per = 0..(Len(gen.ic_basis) - 1)
        /\ \A a \in WeightNames : \A k \in sol.ranges[a] :
              BasisClass(gen, gen.ic_basis[k + 1]) = a

C27_Witness ==
    /\ spc = "ee_done"
    /\ sol.reported = 2
    /\ \A a \in WeightNames : sol.ranges[a] # {}
    /\ Cardinality(sol.ranges.single_internal) >= 2

(* C29: the effective Hamiltonian of run_eom_ee_mrcc is built with the
   operator run_ic_mrcc optimized, op_A when unitary and op_T when not, and
   that operator holds the converged coefficients. *)
C29_HbarUsesOptimizedOperator ==
    sol.Hbar_ic.bound =>
        /\ sol.Hbar_ic.op = (IF sol.unitary THEN "op_A" ELSE "op_T")
        /\ sol.Hbar_ic.coeffs = "t"

(***************************************************************************)
(* The numbers of run_eom_ee_mrcc from the metric to the S^2 value of each *)
(* root, on a basis of two vectors: psi and one internal single n_u psi    *)
(* (g = <psi|n_u|psi> is the overlap of the two and the norm of the        *)
(* second), or psi and one vector of a basis that is not transformed.      *)
(* Every basis vector is an eigenfunction of S^2 with the same eigenvalue, *)
(* so s2 is that eigenvalue times the overlap matrix.                      *)
(***************************************************************************)
MCol(A, j) == [i \in 1..A.r |-> A.a[i][j]]
Quad(v, M) == Dot(v, MVec(M, v))
MScale(c, A) == Mat(A.r, A.c, LAMBDA i, j : RMul(c, A.a[i][j]))
Mat2(a, b, c, d) == [r |-> 2, c |-> 2, a |-> << <<a, b>>, <<c, d>> >>]

(* A case of the internal branch: GNO_P is the identity with diag_total in its
   first row, diag_total = [1.0, -gamma1[u, u]] (lines 1068, 1138-1142). *)
NormCaseGNO(g, h0, h1, spin, thres) ==
    [gno |-> TRUE, S_raw |-> Mat2(One, g, g, g), GNO_P |-> Mat2(One, RNeg(g), Zero, One),
     Hbar_ic |-> Mat2(h0, RMul(h0, g), RMul(h0, g), h1),
     s2 |-> MScale(spin, Mat2(One, g, g, g)), thres |-> thres]

(* A case with add_int or cas_int set: nothing is transformed. *)
NormCasePlain(d, h0, h1, spin, thres) ==
    [gno |-> FALSE, S_raw |-> Mat2(One, Zero, Zero, d), GNO_P |-> MZeros(0, 0),
     Hbar_ic |-> Mat2(h0, Zero, Zero, h1),
     s2 |-> MScale(spin, Mat2(One, Zero, Zero, d)), thres |-> thres]

NormCases ==
    { NormCaseGNO(g, RInt(-2), h1, spin, thres) :
        g \in {R(1, 2), R(1, 5), R(4, 5)}, h1 \in {RInt(-1), RInt(-3)},
        spin \in {Zero, RInt(2)}, thres \in {R(1, 1000000), R(1, 5)} }
    \cup
    { NormCasePlain(d, RInt(-2), h1, spin, thres) :
        d \in {One, R(1, 4)}, h1 \in {RInt(-1), RInt(-3)},
        spin \in {Zero, RInt(2)}, thres \in {R(1, 1000000), R(1, 2)} }

NormLocals(c) ==
    [gno |-> c.gno, S_raw |-> c.S_raw, GNO_P |-> c.GNO_P, Hbar_ic |-> c.Hbar_ic,
     s2 |-> c.s2, thres |-> c.thres,
     S_full |-> MZeros(0, 0), eigval |-> <<>>, eigvec |-> MZeros(0, 0), numnonred |-> 0,
     X_tilde |-> MZeros(0, 0), H_ic_tilde |-> MZeros(0, 0), c_total |-> MZeros(0, 0),
     norm |-> <<>>, i |-> 0, value |-> <<>>, classes |-> <<>>]

NormInit ==
    /\ spc = "norm_metric"
    /\ sol \in { NormLocals(c) : c \in NormCases }
    /\ NumOff
    /\ GenOff

(* self.GNO_P.T @ A @ self.GNO_P *)
congruence(P, A) == MMul(MT(P), MMul(A, P))

(* Lines 1159-1170: S_full, then S_full and self.Hbar_ic are replaced by their
   transforms when neither add_int nor cas_int is set, then eigh *)
NormMetric ==
    /\ spc = "norm_metric"
    /\ sol' = [sol EXCEPT
                 !.S_full = IF sol.gno THEN congruence(sol.GNO_P, sol.S_raw) ELSE sol.S_raw,
                 !.Hbar_ic = IF sol.gno THEN congruence(sol.GNO_P, @) ELSE @,
                 !.eigval = linalg_eigh(IF sol.gno THEN congruence(sol.GNO_P, sol.S_raw)
                                        ELSE sol.S_raw).w,
                 !.eigvec = linalg_eigh(IF sol.gno THEN congruence(sol.GNO_P, sol.S_raw)
                                        ELSE sol.S_raw).v]
    /\ spc' = "norm_select"
    /\ UNCHANGED <<numVars, genVars>>

(* Lines 1198-1204, const_num_op off: the eigenvalues above thres *)
NormSelect ==
    /\ spc = "norm_select"
    /\ sol' = [sol EXCEPT
                 !.numnonred = Len(Mask(sol.eigval, sol.thres)),
                 !.X_tilde = MMul(MCols(sol.eigvec, Mask(sol.eigval, sol.thres)),
                                  InvSqrtDiag(Pick(sol.eigval, Mask(sol.eigval, sol.thres))))]
    /\ spc' = "norm_diag"
    /\ UNCHANGED <<numVars, genVars>>

(* Lines 1207-1217: H_ic_tilde, its eigenvectors, c_total = X_tilde @ evec_ic *)
NormDiagonalize ==
    /\ spc = "norm_diag"
    /\ sol' = [sol EXCEPT
                 !.H_ic_tilde = congruence(sol.X_tilde, sol.Hbar_ic),
                 !.c_total = MMul(sol.X_tilde,
                                  linalg_eigh(congruence(sol.X_tilde, sol.Hbar_ic)).v)]
    /\ spc' = "norm_norm"
    /\ UNCHANGED <<numVars, genVars>>

(* Lines 1219-1221: norm[i] = c_total[:,i].T @ S_full @ c_total[:,i] *)
NormNorm ==
    /\ spc = "norm_norm"
    /\ sol' = [sol EXCEPT !.norm = [k \in 1..sol.c_total.c |->
                                       Quad(MCol(sol.c_total, k), sol.S_full)]]
    /\ spc' = IF sol.c_total.c = 0 THEN "norm_done" ELSE "norm_roots"
    /\ UNCHANGED <<numVars, genVars>>

(* Lines 1253-1265 for root i: abs(ci.T @ s2 @ ci) / norm[i] and its class *)
NormRoot ==
    /\ spc = "norm_roots"
    /\ sol' = [sol EXCEPT
                 !.i = @ + 1,
                 !.value = Append(@, RDiv(RAbs(Quad(MCol(sol.c_total, sol.i + 1), sol.s2)),
                                          sol.norm[sol.i + 1])),
                 !.classes = Append(@, spin_class(
                                 RDiv(RAbs(Quad(MCol(sol.c_total, sol.i + 1), sol.s2)),
                                      sol.norm[sol.i + 1])))]
    /\ spc' = IF sol.i + 1 = sol.c_total.c THEN "norm_done" ELSE "norm_roots"
    /\ UNCHANGED <<numVars, genVars>>

NormNext == NormMetric \/ NormSelect \/ NormDiagonalize \/ NormNorm \/ NormRoot

SpecEomNorm == NormInit /\ [][NormNext]_vars

(* C25: the norm by which the S^2 expectation of every root is divided is
   the root's norm in the untransformed metric, the raw overlap matrix of the
   basis, also when the metric and the effective Hamiltonian have been
   transformed by GNO_P. *)
C25_NormInRawMetric ==
    \A k \in 1..Len(sol.norm) : sol.norm[k] = Quad(MCol(sol.c_total, k), sol.S_raw)

=============================================================================
